---- MODULE Spec2Model ----
(***************************************************************************)
(* Model of the chunked-action execution pipeline of mkygogo/openpi:       *)
(*   - ActionChunkBroker   (openpi_client/action_chunk_broker.py)          *)
(*   - MKRobotStandalone   (mkrobot/hardware/mk_driver.py)                 *)
(*   - MKController        (mkrobot/mk_controller.py)                      *)
(*   - MKRobotOpenPIEnv    (mkrobot/env.py)                                *)
(*   - main                (mkrobot/main.py)                               *)
(*                                                                         *)
(* Angles are fixed-point integers: one radian is RAD units, so that the   *)
(* joint limits, the de-normalisation scale and the interpolation          *)
(* fractions j/(N+1) are all exact.  Floating-point rounding is not        *)
(* modelled.                                                               *)
(***************************************************************************)
EXTENDS Integers, Sequences, FiniteSets, TLC

VARIABLES
    \* ---- ActionChunkBroker ------------------------------------------------
    action_horizon,   \* self._action_horizon
    last_results,     \* self._last_results (None or the cached result dict)
    cur_step,         \* self._cur_step
    \* ---- observation of the last Broker call (what its caller sees) -------
    bout,             \* outcome of the last infer call: kind + returned dict
    last_op,          \* the last Broker operation and the state it started in
    \* ---- bookkeeping of the run, kept beside the program state ------------
    raw_last,         \* the raw dict the policy returned last (before caching)
    pcalls,           \* policy.infer invocations made by the last Broker.infer
    run_calls,        \* Broker.infer calls since construction / last reset
    chunk_calls,      \* Broker.infer calls since the last policy invocation
    run_len,          \* chunk length of the run: 0 none yet, -1 mixed
    run_err,          \* some infer call of this run raised
    \* ---- check_joints_limit applied to a drawn input ----------------------
    clamp_x,          \* the input vector
    clamp_y,          \* the results of applying it once, twice, ...
    \* ---- the sign translation applied to the same vector, as a reading ----
    sim_state,        \* get_observation's state for that reading (<<>>: none)
    target_physical,  \* send_action's target_physical for it (<<>>: none)
    \* ---- MKRobotStandalone (driver) and the motor bus ---------------------
    drv_connected,    \* driver.is_connected
    bus_last,         \* the last target _send_action put on the bus (<<>>: none)
    bus_cmd,          \* the action send_action was called with for it
    bus_src,          \* which path issued it
    bus_srcs,         \* all paths that have put a target on the bus
    bus_n,            \* how many times in a row that target was put there
    bus_clamped,      \* the paths whose target the clamp had to change
    \* ---- MKController -----------------------------------------------------
    ctl_connected,    \* controller.is_connected
    term,             \* terminal mode: "cbreak" or "restored"
    keys_used,        \* key presses, interrupts and bus failures so far
    \* ---- the operator's terminal, and the controller followed step by step
    stdin,            \* keys typed and not read yet, oldest first
    home_k,           \* iterations done of perform_home_sequence's loop
    key_log,          \* every key read so far, with where it was read
    ctl_call,         \* the last controller.apply_action call and what it did
    \* ---- MKRobotOpenPIEnv -------------------------------------------------
    prev_action,      \* env.prev_action (<<>>: None)
    env_chunk,        \* raw_action of the apply_action in progress (frames)
    env_interp,       \* should_interpolate of the apply_action in progress
    interp_j,         \* loop variable j of _run_interpolation
    interp_n,         \* the steps argument of _run_interpolation
    interp_sent,      \* the commands that call has passed on and were sent
    play_i,           \* loop variable i of the playback loop
    play_log,         \* the frames that loop has passed to the controller
    \* ---- main / Runtime ---------------------------------------------------
    pc,               \* where the control thread is
    ctx,              \* which part of main called controller.apply_action
    exc,              \* exception propagating out of main ("none" if none)
    fin_k,            \* iterations done of the shutdown homing loop
    steps,            \* Runtime steps completed
    \* ---- hardware/test_robot_cam.py: two threads on one driver ------------
    thr_pc,           \* where the main thread and the camera thread are
    thr_last,         \* the thread that took the last step
    lock_owner,       \* who holds driver.serial_lock ("none": free)
    bus_users,        \* the threads inside a motor-bus access right now
    running,          \* the global flag both threads test
    latest_obs,       \* the global the camera thread publishes (<<>>: None)
    target_pos,       \* the teleoperation target of the main thread
    \* ---- the timed loops (playback, interpolation, replay) ----------------
    pace_loop,        \* the loop whose iteration ran last ("none": none yet)
    pace_len,         \* chunk_len of that iteration's apply_action
    pace_elapsed,     \* time.time() - loop_start of that iteration
    pace_slept,       \* how long it slept (0: time.sleep was not called)
    pace_clock,       \* time passed since the first iteration began
    \* ---- the calibration a deployment asks for ----------------------------
    relative_zeroing, \* whether policy zero is to mean the pose at connect time
    zero_offset,      \* the physical joint reading at connect time
    \* ---- EpisodeActionLoader and the replay script ------------------------
    ld_frames,        \* the 'action' column of the loaded episode
    ld_idx,           \* loader.current_idx
    ld_out,           \* what the last get_action call returned
    ld_log,           \* what get_action returned, call by call, since the
                      \* loader was built or reset
    ld_calls,         \* get_action calls made so far
    rp_sent           \* the actions the replay loop handed to env.apply_action

brokerVars == <<action_horizon, last_results, cur_step, bout, last_op,
                raw_last, pcalls, run_calls, chunk_calls, run_len, run_err>>

clampVars == <<clamp_x, clamp_y, sim_state, target_physical>>

driverVars ==
    <<drv_connected, bus_last, bus_cmd, bus_src, bus_srcs, bus_n, bus_clamped>>

ctlVars == <<ctl_connected, term, keys_used>>

opVars == <<stdin, home_k, key_log, ctl_call>>

envVars ==
    <<prev_action, env_chunk, env_interp, interp_j, interp_n, interp_sent, play_i,
      play_log>>

mainVars == <<pc, ctx, exc, fin_k, steps>>

pipeVars == <<driverVars, ctlVars, envVars, mainVars>>

camVars ==
    <<thr_pc, thr_last, lock_owner, bus_users, running, latest_obs, target_pos>>

paceVars == <<pace_loop, pace_len, pace_elapsed, pace_slept, pace_clock>>

calVars == <<relative_zeroing, zero_offset>>

loaderVars == <<ld_frames, ld_idx, ld_out, ld_log, ld_calls, rp_sent>>

auxVars == <<camVars, paceVars, calVars, loaderVars>>

vars == <<brokerVars, clampVars, pipeVars, opVars, auxVars>>

-----------------------------------------------------------------------------
(* Bounds of the model *)

MaxLen == 3
MaxHorizon == 3
MaxCalls == 5
MaxSeed == 1
MaxOver == 1
MaxSteps == 2
MaxKeys == 2
MaxInterpSteps == 2
MaxTyped == 3

DOF == 7
ARM == 6

\* fixed-point unit: RAD units are one radian (and 1.0 of gripper travel)
RAD == 16 * 100

None == [kind |-> "none"]

Min(a, b) == IF a < b THEN a ELSE b
Max(a, b) == IF a > b THEN a ELSE b

-----------------------------------------------------------------------------
(* numpy values.  An ndarray is its shape and its elements in row-major    *)
(* order; anything that is not an ndarray (a Python scalar) is an "obj".   *)

NdArray(shape, flat) == [kind |-> "nd", shape |-> shape, flat |-> flat]
PyObj(v) == [kind |-> "obj", shape |-> <<>>, flat |-> <<v>>]

IsNdArray(x) == x.kind = "nd"
Ndim(x) == Len(x.shape)

RECURSIVE Prod(_)
Prod(s) == IF s = <<>> THEN 1 ELSE Head(s) * Prod(Tail(s))

\* x[idx, ...] for an array with at least one dimension, 0 <= idx < shape[0]
IndexFirst(x, idx) ==
    LET rest == Tail(x.shape)
        n == Prod(rest)
    IN NdArray(rest, SubSeq(x.flat, idx * n + 1, (idx + 1) * n))

\* x[None, ...]
AddLeadingAxis(x) == NdArray(<<1>> \o x.shape, x.flat)

-----------------------------------------------------------------------------
(* Keys of the result dict, as character sequences, and str(path).         *)

K_actions == <<"a","c","t","i","o","n","s">>
K_logits == <<"l","o","g","i","t","s">>
K_meta == <<"m","e","t","a">>
K_state == <<"s","t","a","t","e">>
K_mask == <<"m","a","s","k">>
K_hist == <<"h","i","s","t">>
K_prev_actions == <<"p","r","e","v","_">> \o K_actions

\* str(path) of a top-level key k: "('k',)"
StrPath(k) == <<"(", "'">> \o k \o <<"'", ",", ")">>

\* Python's `sub in s` on strings
Contains(s, sub) ==
    \E i \in 1..(Len(s) - Len(sub) + 1) : SubSeq(s, i, i + Len(sub) - 1) = sub

ActionsInPath(k) == Contains(StrPath(k), K_actions)

-----------------------------------------------------------------------------
(* The inner policy.  One inference returns a dict whose "actions" field   *)
(* is a chunk of L frames of DOF values (or a single frame with no chunk   *)
(* dimension), possibly with auxiliary fields.  Frame values are in tenths *)
(* of the normalised range, frame i of a chunk differing from frame i+1.   *)

Seeds == 0..MaxSeed
ChunkLens == 1..MaxLen

FrameVal(seed, i, j) ==
    (IF seed % 2 = 1 THEN -1 ELSE 1) * (seed * 8 + i + j - 5)

PolicyFrame(seed, i) == [j \in 1..DOF |-> FrameVal(seed, i, j)]

ActionsArr(seed, L) ==
    NdArray(<<L, DOF>>,
            [n \in 1..(L * DOF) |->
                FrameVal(seed, ((n - 1) \div DOF) + 1, ((n - 1) % DOF) + 1)])

\* a batched chunk, shape (1, L, 7)
ActionsBatch(seed, L) == NdArray(<<1, L, DOF>>, ActionsArr(seed, L).flat)

\* a batch of two chunks, shape (2, L, 7)
ActionsBatchOfTwo(seed, L) ==
    NdArray(<<2, L, DOF>>, ActionsArr(seed, L).flat \o ActionsArr(seed + 1, L).flat)

ActionsVec(seed) == NdArray(<<DOF>>, PolicyFrame(seed, 1))

LogitsArr(seed, L) ==
    NdArray(<<L, 3>>, [n \in 1..(L * 3) |-> 100 * seed + n])

Variants == {"plain", "rich", "vec", "mask", "prev"}

VariantKeys(v) ==
    CASE v = "plain" -> {K_actions}
      [] v = "rich"  -> {K_actions, K_logits, K_meta, K_state, K_hist}
      [] v = "vec"   -> {K_actions, K_logits, K_meta, K_state}
      [] v = "mask"  -> {K_actions, K_mask}
      [] v = "prev"  -> {K_actions, K_prev_actions}

PolicyResult(v, seed, L) ==
    [k \in VariantKeys(v) |->
        CASE k = K_actions -> IF v = "vec" THEN ActionsVec(seed)
                                           ELSE ActionsArr(seed, L)
          [] k = K_logits  -> LogitsArr(seed, IF v = "vec" THEN 1 ELSE L)
          [] k = K_meta    -> PyObj(40 + seed)
          [] k = K_state   -> NdArray(<<2>>, <<seed, seed + 1>>)
          [] k = K_hist    -> NdArray(<<MaxLen + 1, 2>>,
                                      [n \in 1..(2 * (MaxLen + 1)) |-> 50 + n])
          [] k = K_mask    -> NdArray(<<>>, <<1>>)
          [] k = K_prev_actions ->
                 NdArray(<<2, DOF>>, [n \in 1..(2 * DOF) |-> 60 + n])]

PolicyResults ==
    {PolicyResult(v, seed, L) : v \in Variants, seed \in Seeds, L \in ChunkLens}

-----------------------------------------------------------------------------
(* ActionChunkBroker *)

Some(d) == [kind |-> "some", val |-> d]
IsNone(x) == x.kind = "none"

\* mutant: the chunk dimension is never synthesised
EnsureChunkDimIdentity(k, x) == x

\* ensure_chunk_dim(path, x)
EnsureChunkDim(k, x) ==
    IF IsNdArray(x) /\ Ndim(x) = 1 /\ ActionsInPath(k)
    THEN AddLeadingAxis(x)
    ELSE x

\* chunk_size as infer determines it from the cached "actions" field
ChunkSize(cached) ==
    IF K_actions \in DOMAIN cached /\ IsNdArray(cached[K_actions])
    THEN cached[K_actions].shape[1]
    ELSE 1

\* x.shape[0] of a 0-d array, or x[idx] of an empty one, raises IndexError
SlicerRaises(k, x) ==
    /\ IsNdArray(x)
    /\ \/ Ndim(x) = 0
       \/ ActionsInPath(k) /\ x.shape[1] = 0

\* mutant: only the action field is sliced, parallel sequences are not
SlicerActionsOnly(k, x, step, chunk_size) ==
    IF IsNdArray(x) /\ ActionsInPath(k)
    THEN IndexFirst(x, Min(step, x.shape[1] - 1))
    ELSE x

\* mutant: the frame after the cursor is served
SlicerOffByOne(k, x, step, chunk_size) ==
    IF IsNdArray(x) /\ (ActionsInPath(k) \/ (x.shape[1] = chunk_size /\ Ndim(x) > 1))
    THEN IndexFirst(x, Min(step + 1, x.shape[1] - 1))
    ELSE x

\* slicer(path, x) with self._cur_step = step
Slicer(k, x, step, chunk_size) ==
    IF IsNdArray(x)
    THEN IF ActionsInPath(k)
         THEN IndexFirst(x, Min(step, x.shape[1] - 1))
         ELSE IF x.shape[1] = chunk_size /\ Ndim(x) > 1
              THEN IndexFirst(x, Min(step, x.shape[1] - 1))
              ELSE x
    ELSE x

\* mutant: only the horizon clears the cache
CacheExhaustedHorizonOnly(step, horizon, chunk_size) == step >= horizon

\* the test that clears the cache after the cursor was incremented
CacheExhausted(step, horizon, chunk_size) ==
    step >= horizon \/ step >= chunk_size

\* chunk length of a raw policy result (a frame without chunk dimension: 1)
RawLen(raw) ==
    IF Ndim(raw[K_actions]) = 1 THEN 1 ELSE raw[K_actions].shape[1]

RunLenAfter(raw) ==
    IF run_len = 0 THEN RawLen(raw)
    ELSE IF run_len = RawLen(raw) THEN run_len ELSE -1

\* what the Broker operation now starting finds, and what the one before found
OpRecord(op) ==
    [op |-> op, from_step |-> cur_step, had_cache |-> ~IsNone(last_results),
     prev_op |-> last_op.op, prev_from |-> last_op.from_step,
     prev_cache |-> last_op.had_cache, prev_out |-> bout.kind]

\* lines 103-141 of infer, on the cached dict and the cursor
BrokerServe(cached, step) ==
    LET chunk_size == ChunkSize(cached)
        raises == \E k \in DOMAIN cached : SlicerRaises(k, cached[k])
        results == [k \in DOMAIN cached |->
                        Slicer(k, cached[k], step, chunk_size)]
    IN IF raises
       THEN /\ last_results' = Some(cached)
            /\ cur_step' = step
            /\ bout' = [kind |-> "index_error"]
            /\ run_err' = TRUE
       ELSE /\ cur_step' = step + 1
            /\ last_results' =
                   IF CacheExhausted(step + 1, action_horizon, chunk_size)
                   THEN None ELSE Some(cached)
            /\ bout' = [kind |-> "ok", val |-> results]
            /\ run_err' = run_err

\* ActionChunkBroker.infer when the policy answers with raw (if asked)
BrokerInfer(raw) ==
    /\ run_calls < MaxCalls
    /\ last_op' = OpRecord("infer")
    /\ run_calls' = run_calls + 1
    /\ UNCHANGED action_horizon
    /\ IF IsNone(last_results)
       THEN /\ BrokerServe([k \in DOMAIN raw |-> EnsureChunkDim(k, raw[k])], 0)
            /\ raw_last' = Some(raw)
            /\ pcalls' = 1
            /\ chunk_calls' = 1
            /\ run_len' = RunLenAfter(raw)
       ELSE /\ BrokerServe(last_results.val, cur_step)
            /\ pcalls' = 0
            /\ chunk_calls' = chunk_calls + 1
            /\ UNCHANGED <<raw_last, run_len>>

\* mutant: the Broker asks the policy a second time before giving up
BrokerInferPolicyRaisesRetry ==
    /\ run_calls < MaxCalls
    /\ IsNone(last_results)
    /\ last_op' = OpRecord("infer")
    /\ run_calls' = run_calls + 1
    /\ pcalls' = 2
    /\ bout' = [kind |-> "policy_error"]
    /\ run_err' = TRUE
    /\ UNCHANGED <<action_horizon, last_results, cur_step, raw_last,
                   chunk_calls, run_len>>

\* ActionChunkBroker.infer when self._policy.infer(obs) raises
BrokerInferPolicyRaises ==
    /\ run_calls < MaxCalls
    /\ IsNone(last_results)
    /\ last_op' = OpRecord("infer")
    /\ run_calls' = run_calls + 1
    /\ pcalls' = 1
    /\ bout' = [kind |-> "policy_error"]
    /\ run_err' = TRUE
    /\ UNCHANGED <<action_horizon, last_results, cur_step, raw_last,
                   chunk_calls, run_len>>

\* mutant: reset drops the cache but leaves the cursor
BrokerResetKeepsCursor ==
    /\ last_op' = OpRecord("reset")
    /\ last_results' = None
    /\ bout' = None
    /\ raw_last' = None
    /\ pcalls' = 0
    /\ run_calls' = 0
    /\ chunk_calls' = 0
    /\ run_len' = 0
    /\ run_err' = FALSE
    /\ UNCHANGED <<action_horizon, cur_step>>

\* ActionChunkBroker.reset
BrokerReset ==
    /\ last_op' = OpRecord("reset")
    /\ last_results' = None
    /\ cur_step' = 0
    /\ bout' = None
    /\ raw_last' = None
    /\ pcalls' = 0
    /\ run_calls' = 0
    /\ chunk_calls' = 0
    /\ run_len' = 0
    /\ run_err' = FALSE
    /\ UNCHANGED action_horizon

\* ActionChunkBroker.__init__(policy, action_horizon)
BrokerInit(h) ==
    /\ action_horizon = h
    /\ last_results = None
    /\ cur_step = 0
    /\ bout = None
    /\ last_op = [op |-> "init", from_step |-> 0, had_cache |-> FALSE,
                  prev_op |-> "none", prev_from |-> 0, prev_cache |-> FALSE,
                  prev_out |-> "none"]
    /\ raw_last = None
    /\ pcalls = 0
    /\ run_calls = 0
    /\ chunk_calls = 0
    /\ run_len = 0
    /\ run_err = FALSE

-----------------------------------------------------------------------------
(* MKRobotStandalone: joint limits and the safety clamp *)

\* JOINT_LIMITS, keyed by the 0-based joint index
JOINT_LIMITS ==
    [i \in 0..5 |->
        CASE i = 0 -> <<-3 * RAD, 3 * RAD>>
          [] i = 1 -> <<0, 3 * RAD>>
          [] i = 2 -> <<0, 3 * RAD>>
          [] i = 3 -> <<-(17 * RAD) \div 10, (12 * RAD) \div 10>>
          [] i = 4 -> <<-(4 * RAD) \div 10, (4 * RAD) \div 10>>
          [] i = 5 -> <<-2 * RAD, 2 * RAD>>]

GRIPPER_LIMITS == <<0, RAD>>

\* np.clip(v, lo, hi)
Clip(v, lo, hi) == Min(Max(v, lo), hi)

\* mutant: the gripper channel is left as commanded
CheckJointsLimitArmOnly(a) ==
    [j \in 1..DOF |->
        IF j <= ARM /\ (j - 1) \in DOMAIN JOINT_LIMITS
        THEN Clip(a[j], JOINT_LIMITS[j - 1][1], JOINT_LIMITS[j - 1][2])
        ELSE a[j]]

\* mutant: each clipped value is read from the next joint's entry
CheckJointsLimitShifted(a) ==
    [j \in 1..DOF |->
        IF j <= ARM
        THEN Clip(a[j + 1], JOINT_LIMITS[j - 1][1], JOINT_LIMITS[j - 1][2])
        ELSE Clip(a[j], GRIPPER_LIMITS[1], GRIPPER_LIMITS[2])]

\* check_joints_limit(action_array) for a 7-vector
CheckJointsLimit(a) ==
    [j \in 1..DOF |->
        IF j <= ARM
        THEN IF (j - 1) \in DOMAIN JOINT_LIMITS
             THEN Clip(a[j], JOINT_LIMITS[j - 1][1], JOINT_LIMITS[j - 1][2])
             ELSE a[j]
        ELSE Clip(a[j], GRIPPER_LIMITS[1], GRIPPER_LIMITS[2])]

ZeroPose == [j \in 1..DOF |-> 0]

\* the closed interval of entry j (1-based) of a target
LimitOf(j) == IF j <= ARM THEN JOINT_LIMITS[j - 1] ELSE GRIPPER_LIMITS

-----------------------------------------------------------------------------
(* MKRobotStandalone: send_action and disconnect *)

\* self.HARDWARE_DIR
HARDWARE_DIR == <<-1, 1, -1, -1, -1, -1, 1>>

\* action * self.HARDWARE_DIR
TimesDir(a) == [j \in 1..DOF |-> a[j] * HARDWARE_DIR[j]]

\* mutant: the reading is handed on in the physical frame
ObsStateUnsigned(p) == p

\* get_observation: sim_state = physical_state * self.HARDWARE_DIR
ObsState(p) == [j \in 1..DOF |-> p[j] * HARDWARE_DIR[j]]

\* mutant: the sign-corrected target goes to the bus as it is
DriverSendActionUnclamped(a, src, n) ==
    IF ~drv_connected
    THEN UNCHANGED <<bus_last, bus_cmd, bus_src, bus_srcs, bus_n, bus_clamped>>
    ELSE /\ bus_last' = TimesDir(a)
         /\ bus_cmd' = a
         /\ bus_src' = src
         /\ bus_srcs' = bus_srcs \cup {src}
         /\ bus_n' = n
         /\ bus_clamped' = bus_clamped

\* mutant: send_action goes on to the bus whether or not the driver is
\* connected
DriverSendActionNoGuard(a, src, n) ==
    /\ bus_last' = CheckJointsLimit(TimesDir(a))
    /\ bus_cmd' = a
    /\ bus_src' = src
    /\ bus_srcs' = bus_srcs \cup {src}
    /\ bus_n' = n
    /\ bus_clamped' = IF CheckJointsLimit(TimesDir(a)) = TimesDir(a)
                       THEN bus_clamped ELSE bus_clamped \cup {src}

\* n calls in a row of driver.send_action(a): sign correction, clamp,
\* _send_action
DriverSendAction(a, src, n) ==
    IF ~drv_connected
    THEN UNCHANGED <<bus_last, bus_cmd, bus_src, bus_srcs, bus_n, bus_clamped>>
    ELSE /\ bus_last' = CheckJointsLimit(TimesDir(a))
         /\ bus_cmd' = a
         /\ bus_src' = src
         /\ bus_srcs' = bus_srcs \cup {src}
         /\ bus_n' = n
         /\ bus_clamped' = IF CheckJointsLimit(TimesDir(a)) = TimesDir(a)
                            THEN bus_clamped ELSE bus_clamped \cup {src}

BusUnchanged == UNCHANGED <<bus_last, bus_cmd, bus_src, bus_srcs, bus_n, bus_clamped>>

-----------------------------------------------------------------------------
(* MKController *)

Keys == {"none", "x", " ", "q", "Q"}

\* key.lower() == 'q'
IsQuitKey(k) == k \in {"q", "Q"}

\* key presses the model still allows
KeyAllowed(k) == k = "none" \/ keys_used < MaxKeys

KeysAfter(k) == IF k = "none" THEN keys_used ELSE keys_used + 1

\* mutant: any key read in the pause loop resumes
PauseOutcomeAnyKey(k) == IF IsQuitKey(k) THEN "quit" ELSE "reset"

\* what the pause loop does with a key it has read (lines 64-71)
PauseOutcome(k) ==
    IF k = " " THEN "reset"
    ELSE IF IsQuitKey(k) THEN "quit"
    ELSE "stay"

\* controller.close(): restore the terminal, close the driver
ControllerClose ==
    /\ term' = "restored"
    /\ ctl_connected' = FALSE
    /\ drv_connected' = IF ctl_connected THEN FALSE ELSE drv_connected

HOME_STEPS == 40

\* perform_home_sequence(): HOME_STEPS times driver.send_action(zeros)
PerformHomeSequence == DriverSendAction(ZeroPose, "home", HOME_STEPS)

\* mutant: a poll that finds no key returns without the action being sent
ApplyOutcomeIdleSkips(k) ==
    IF ~ctl_connected THEN "skipped"
    ELSE IF IsQuitKey(k) THEN "quit"
    ELSE IF k = " " THEN "paused"
    ELSE IF k = "none" THEN "skipped"
    ELSE "sent"

\* what controller.apply_action(cmd) does when key k is waiting:
\*   "skipped"  not connected, returned at once
\*   "sent"     cmd went to the driver
\*   "quit"     q: close() and KeyboardInterrupt
\*   "paused"   space: home sequence, then waiting in the pause loop
ApplyOutcome(k) ==
    IF ~ctl_connected THEN "skipped"
    ELSE IF IsQuitKey(k) THEN "quit"
    ELSE IF k = " " THEN "paused"
    ELSE "sent"

\* the record of one controller.apply_action(cmd) call: whether it polled
\* stdin, the key the poll found, and whether cmd went on to the driver
CallRecord(cmd, k, src) ==
    [kind |-> "call", cmd |-> cmd, src |-> src,
     polls |-> IF ctl_connected THEN 1 ELSE 0,
     key |-> IF ctl_connected THEN k ELSE "none",
     sent |-> ApplyOutcome(k) = "sent" /\ drv_connected]

\* controller.apply_action(cmd) with key k waiting; src names the caller
ControllerApplyAction(cmd, k, src) ==
    /\ KeyAllowed(k)
    /\ keys_used' = IF ctl_connected THEN KeysAfter(k) ELSE keys_used
    /\ ctl_call' = CallRecord(cmd, k, src)
    /\ key_log' = IF ctl_connected /\ k # "none"
                  THEN Append(key_log, <<src, k>>)
                  ELSE key_log
    /\ CASE ApplyOutcome(k) = "skipped" ->
               /\ BusUnchanged
               /\ UNCHANGED <<ctl_connected, term, drv_connected>>
         [] ApplyOutcome(k) = "sent" ->
               /\ DriverSendAction(cmd, src, 1)
               /\ UNCHANGED <<ctl_connected, term, drv_connected>>
         [] ApplyOutcome(k) = "quit" ->
               /\ ControllerClose
               /\ BusUnchanged
         [] ApplyOutcome(k) = "paused" ->
               /\ PerformHomeSequence
               /\ UNCHANGED <<ctl_connected, term, drv_connected>>

-----------------------------------------------------------------------------
(* NormalizedMKRobotEnv / MKRobotOpenPIEnv *)

\* JOINT_NORM_SCALE, in tenths
JOINT_NORM_SCALE == <<30, 30, 30, 17, 4, 20, 10>>

K_is_new_chunk == <<"i","s","_","n","e","w","_","c","h","u","n","k">>

\* mutant: of a 3-dimensional array the last batch element is taken
DenormalizeLastBatch(x) ==
    LET y == IF Ndim(x) = 3 THEN IndexFirst(x, x.shape[1] - 1) ELSE x
    IN NdArray(y.shape,
               [n \in 1..Len(y.flat) |->
                   y.flat[n] * JOINT_NORM_SCALE[((n - 1) % DOF) + 1]
                             * (RAD \div 100)])

\* NormalizedMKRobotEnv.apply_action: raw_action * JOINT_NORM_SCALE
\* (normalised tenths times scale tenths are hundredths of a radian)
Denormalize(x) ==
    LET y == IF Ndim(x) = 3 THEN IndexFirst(x, 0) ELSE x
    IN NdArray(y.shape,
               [n \in 1..Len(y.flat) |->
                   y.flat[n] * JOINT_NORM_SCALE[((n - 1) % DOF) + 1]
                             * (RAD \div 100)])

\* the (N, 7) array env.apply_action plays, as a sequence of frames
EnvFrames(x) ==
    LET y == IF Ndim(x) = 1 THEN AddLeadingAxis(x)
             ELSE IF Ndim(x) = 3 THEN IndexFirst(x, 0)
             ELSE x
    IN [i \in 1..y.shape[1] |-> IndexFirst(y, i - 1).flat]

\* mutant: the flag is not read, every action counts as a new chunk
IsNewChunkIgnored(action) == TRUE

\* action.get("is_new_chunk", True), numpy bools unwrapped
IsNewChunk(action) ==
    IF K_is_new_chunk \in DOMAIN action
    THEN action[K_is_new_chunk].flat[1] # 0
    ELSE TRUE

INTERP_STEPS == 15
SHUTDOWN_STEPS == 50

\* mutant: the gripper is interpolated like an arm joint
InterpCmdAllJoints(start, target, j, n) ==
    [k \in 1..DOF |-> start[k] + ((target[k] - start[k]) * j) \div (n + 1)]

\* mutant: alpha = j / steps, the last sub-step lands on the target
InterpCmdToTarget(start, target, j, n) ==
    [k \in 1..DOF |->
        IF k <= ARM
        THEN start[k] + ((target[k] - start[k]) * j) \div n
        ELSE start[k]]

\* interp_cmd of sub-step j: arm joints on the line from start to target,
\* gripper as in start
InterpCmd(start, target, j, n) ==
    [k \in 1..DOF |->
        IF k <= ARM
        THEN start[k] + ((target[k] - start[k]) * j) \div (n + 1)
        ELSE start[k]]

\* where an exception raised inside controller.apply_action ends up in main
\*   KeyboardInterrupt in rt.run()       -> the except KeyboardInterrupt block
\*   KeyboardInterrupt in that block     -> the finally block, still raised
\*   KeyboardInterrupt in the finally    -> out of main, env.close() skipped
RaiseKeyboardInterrupt(c) ==
    CASE c = "run"   -> pc' = "kbint" /\ exc' = "none"
      [] c = "kbint" -> pc' = "final" /\ exc' = "KeyboardInterrupt"
      [] c = "final" -> pc' = "exit" /\ exc' = "KeyboardInterrupt"

\*   any Exception in rt.run()           -> logged, then the finally block
\*   any Exception in the except block   -> passed over, then the finally block
\*   any Exception in the finally's try  -> printed, then env.close()
RaiseException(c) ==
    CASE c = "run"   -> pc' = "final" /\ exc' = exc
      [] c = "kbint" -> pc' = "final" /\ exc' = exc
      [] c = "final" -> pc' = "closing" /\ exc' = exc

\* test_robot_cam.py is not running
CamIdle ==
    /\ thr_pc = [main |-> "off", cam |-> "off"]
    /\ thr_last = "none"
    /\ lock_owner = "none"
    /\ bus_users = {}
    /\ running = TRUE
    /\ latest_obs = <<>>
    /\ target_pos = <<>>

\* no timed loop has run
PaceIdle ==
    /\ pace_loop = "none"
    /\ pace_len = 0
    /\ pace_elapsed = 0
    /\ pace_slept = 0
    /\ pace_clock = 0

\* absolute zero: connected with every joint reading 0
CalIdle ==
    /\ relative_zeroing = FALSE
    /\ zero_offset = ZeroPose

\* no episode loaded
LoaderIdle ==
    /\ ld_frames = <<>>
    /\ ld_idx = 0
    /\ ld_out = [kind |-> "none"]
    /\ ld_log = <<>>
    /\ ld_calls = 0
    /\ rp_sent = <<>>

AuxIdle == CamIdle /\ PaceIdle /\ CalIdle /\ LoaderIdle

\* nothing typed, no controller call made yet
OperatorIdle ==
    /\ stdin = <<>>
    /\ home_k = 0
    /\ key_log = <<>>
    /\ ctl_call = [kind |-> "none"]

\* the pipeline before main has built anything (the other specifications)
PipeIdle ==
    /\ OperatorIdle
    /\ drv_connected = FALSE
    /\ bus_last = <<>>
    /\ bus_cmd = <<>>
    /\ bus_src = "none"
    /\ bus_srcs = {}
    /\ bus_n = 0
    /\ bus_clamped = {}
    /\ ctl_connected = FALSE
    /\ term = "restored"
    /\ keys_used = 0
    /\ prev_action = <<>>
    /\ env_chunk = <<>>
    /\ env_interp = FALSE
    /\ interp_j = 0
    /\ interp_n = 0
    /\ interp_sent = <<>>
    /\ play_i = 0
    /\ play_log = <<>>
    /\ pc = "idle"
    /\ ctx = "run"
    /\ exc = "none"
    /\ fin_k = 0
    /\ steps = 0

-----------------------------------------------------------------------------
(* check_joints_limit on its own: inputs around every bound and far off    *)

\* sample values for entry j: the bounds, values beyond them by up to
\* MaxOver steps of a tenth, an interior value, and +-100 rad
JointSamples(j) ==
    LET lo == LimitOf(j)[1]
        hi == LimitOf(j)[2]
        d == RAD \div 10
    IN {lo, hi, (lo + hi) \div 2, 100 * RAD, -100 * RAD}
       \cup {lo - k * d : k \in 1..MaxOver}
       \cup {hi + k * d : k \in 1..MaxOver}
       \cup {lo + k * d : k \in 1..MaxOver}

\* an interior pose with up to two entries replaced by samples
ClampInputs ==
    LET base == [j \in 1..DOF |-> (LimitOf(j)[1] + LimitOf(j)[2]) \div 2]
    IN UNION {UNION {{[base EXCEPT ![i] = v, ![j] = w] :
                          v \in JointSamples(i), w \in JointSamples(j)} :
                     j \in 1..DOF} :
              i \in 1..DOF}

ClampInit ==
    /\ clamp_x = ZeroPose
    /\ clamp_y = <<>>
    /\ sim_state = <<>>
    /\ target_physical = <<>>

\* the joint readings at connect time a run is started with
ConnectReadings == {ZeroPose, [ZeroPose EXCEPT ![1] = RAD \div 10]}

InitClamp ==
    /\ BrokerInit(1)
    /\ PipeIdle
    /\ CamIdle
    /\ PaceIdle
    /\ LoaderIdle
    /\ relative_zeroing \in BOOLEAN
    /\ zero_offset \in ConnectReadings
    /\ clamp_x \in ClampInputs
    /\ clamp_y = <<>>
    /\ sim_state = <<>>
    /\ target_physical = <<>>

\* apply check_joints_limit to the input, then to its own result
ClampApply ==
    /\ Len(clamp_y) < 2
    /\ clamp_y' = Append(clamp_y,
                         CheckJointsLimit(IF clamp_y = <<>> THEN clamp_x
                                          ELSE clamp_y[Len(clamp_y)]))
    /\ UNCHANGED <<clamp_x, sim_state, target_physical, brokerVars, pipeVars, opVars,
                   auxVars>>

\* get_observation turns the physical reading into the policy frame
TranslateObservation ==
    /\ sim_state = <<>>
    /\ sim_state' = ObsState(clamp_x)
    /\ UNCHANGED <<clamp_x, clamp_y, target_physical, brokerVars, pipeVars, opVars,
                   auxVars>>

\* send_action turns that state back into the physical frame (line 298)
TranslateAction ==
    /\ sim_state # <<>>
    /\ target_physical = <<>>
    /\ target_physical' = TimesDir(sim_state)
    /\ UNCHANGED <<clamp_x, clamp_y, sim_state, brokerVars, pipeVars, opVars,
                   auxVars>>

NextClamp == ClampApply \/ TranslateObservation \/ TranslateAction

SpecClamp == InitClamp /\ [][NextClamp]_vars

-----------------------------------------------------------------------------
(* The Broker on its own: any policy answers, any interleaving of infer    *)
(* and reset.                                                              *)

Horizons == 1..MaxHorizon

InitBroker == ClampInit /\ AuxIdle /\ PipeIdle /\ \E h \in Horizons : BrokerInit(h)

Infer ==
    /\ UNCHANGED <<clampVars, auxVars, pipeVars, opVars>>
    /\ \E raw \in PolicyResults : BrokerInfer(raw)

InferPolicyRaises == UNCHANGED <<clampVars, auxVars, pipeVars, opVars>> /\ BrokerInferPolicyRaises

Reset == UNCHANGED <<clampVars, auxVars, pipeVars, opVars>> /\ BrokerReset

NextBroker == Infer \/ InferPolicyRaises \/ Reset

SpecBroker == InitBroker /\ [][NextBroker]_vars

-----------------------------------------------------------------------------
(* main: the environment, the Broker and the Runtime loop, inside main's   *)
(* try / except KeyboardInterrupt / except Exception / finally.            *)

\* the answers the policy server gives in the composed system
PipelineResults ==
    {PolicyResult("plain", 0, 1), PolicyResult("plain", MaxSeed, MaxLen),
     PolicyResult("mask", 0, 1),
     [k \in {K_actions} |-> ActionsBatch(MaxSeed, MaxLen)]}

\* the horizons main is started with
PipelineHorizons == {1, MaxHorizon}

\* lines 96-129: policy client, environment (controller.connect()), Broker
\* and Runtime are built
MainInit(h) ==
    /\ BrokerInit(h)
    /\ OperatorIdle
    /\ ClampInit
    /\ AuxIdle
    /\ drv_connected = TRUE
    /\ bus_last = <<>>
    /\ bus_cmd = <<>>
    /\ bus_src = "none"
    /\ bus_srcs = {}
    /\ bus_n = 0
    /\ bus_clamped = {}
    /\ ctl_connected = TRUE
    /\ term = "cbreak"
    /\ keys_used = 0
    /\ prev_action = <<>>
    /\ env_chunk = <<>>
    /\ env_interp = FALSE
    /\ interp_j = 0
    /\ interp_n = 0
    /\ interp_sent = <<>>
    /\ play_i = 0
    /\ play_log = <<>>
    /\ pc = "start"
    /\ ctx = "run"
    /\ exc = "none"
    /\ fin_k = 0
    /\ steps = 0

Init == \E h \in PipelineHorizons : MainInit(h)

\* Runtime._run_episode: environment.reset(), agent.reset()
RuntimeStart ==
    /\ pc = "start"
    /\ prev_action' = <<>>
    /\ BrokerReset
    /\ pc' = "step"
    /\ UNCHANGED <<clampVars, auxVars, opVars, driverVars, ctlVars, env_chunk, env_interp,
                   interp_j, interp_n, interp_sent, play_i, play_log, ctx, exc, fin_k,
                   steps>>

\* Runtime._step: action = agent.get_action(observation), the Broker's infer
RuntimeInfer ==
    /\ pc = "step"
    /\ steps < MaxSteps
    /\ \E raw \in PipelineResults : BrokerInfer(raw)
    /\ IF bout'.kind = "ok"
       THEN pc' = "apply" /\ exc' = exc
       ELSE RaiseException("run")
    /\ UNCHANGED <<clampVars, auxVars, opVars, driverVars, ctlVars, envVars, ctx, fin_k, steps>>

\* the same step when the policy server fails
RuntimeInferRaises ==
    /\ pc = "step"
    /\ steps < MaxSteps
    /\ BrokerInferPolicyRaises
    /\ RaiseException("run")
    /\ UNCHANGED <<clampVars, auxVars, opVars, driverVars, ctlVars, envVars, ctx, fin_k, steps>>

\* NormalizedMKRobotEnv.apply_action and env.apply_action up to its loops
EnvApplyAction ==
    /\ pc = "apply"
    /\ LET action == bout.val
           frames == EnvFrames(Denormalize(action[K_actions]))
           should_interpolate == IsNewChunk(action) /\ prev_action # <<>>
       IN /\ env_chunk' = frames
          /\ env_interp' = should_interpolate
          /\ interp_j' = 0
          /\ interp_n' = INTERP_STEPS
          /\ interp_sent' = <<>>
          /\ play_i' = 0
          /\ play_log' = <<>>
          /\ pc' = IF should_interpolate THEN "runinterp" ELSE "play"
    /\ UNCHANGED <<brokerVars, clampVars, auxVars, opVars, driverVars, ctlVars, prev_action,
                   ctx, exc, fin_k, steps>>

\* _run_interpolation is entered: "if steps <= 0: return"
RunInterpolation ==
    /\ pc = "runinterp"
    /\ IF interp_n <= 0
       THEN pc' = "play" /\ interp_j' = interp_j
       ELSE pc' = "interp" /\ interp_j' = 1
    /\ UNCHANGED <<brokerVars, clampVars, auxVars, opVars, driverVars, ctlVars, prev_action,
                   env_chunk, env_interp, interp_n, interp_sent, play_i, play_log,
                   ctx, exc, fin_k, steps>>

\* one iteration of _run_interpolation's loop
InterpStep ==
    /\ pc = "interp"
    /\ \E k \in Keys :
          LET interp_cmd == InterpCmd(prev_action, env_chunk[1], interp_j,
                                      interp_n)
          IN /\ ControllerApplyAction(interp_cmd, k, "interp")
             /\ CASE ApplyOutcome(k) \in {"sent", "skipped"} ->
                        /\ interp_j' = interp_j + 1
                        /\ interp_sent' = IF ApplyOutcome(k) = "sent"
                                          THEN Append(interp_sent, interp_cmd)
                                          ELSE interp_sent
                        /\ pc' = IF interp_j = interp_n THEN "play"
                                 ELSE "interp"
                        /\ UNCHANGED <<ctx, exc>>
                  [] ApplyOutcome(k) = "quit" ->
                        /\ RaiseKeyboardInterrupt("run")
                        /\ UNCHANGED <<interp_j, interp_sent, ctx>>
                  [] ApplyOutcome(k) = "paused" ->
                        /\ pc' = "paused"
                        /\ ctx' = "run"
                        /\ UNCHANGED <<interp_j, interp_sent, exc>>
    /\ UNCHANGED <<brokerVars, clampVars, auxVars, stdin, home_k, prev_action, env_chunk, env_interp,
                   interp_n, play_i, play_log, fin_k, steps>>

\* mutant: the chunk is played from its last frame backwards
PlaybackFrameReversed(i) == env_chunk[Len(env_chunk) - i]

\* final_cmd = raw_action[i]
PlaybackFrame(i) == env_chunk[i + 1]

\* mutant: prev_action keeps the first frame ever played
PrevActionKeepsFirst(final_cmd) ==
    IF prev_action = <<>> THEN final_cmd ELSE prev_action

\* self.prev_action = final_cmd
PrevActionAfter(final_cmd) == final_cmd

\* one iteration of env.apply_action's playback loop
PlayFrame ==
    /\ pc = "play"
    /\ \E k \in Keys :
          /\ ControllerApplyAction(PlaybackFrame(play_i), k, "frame")
          /\ play_log' = Append(play_log, PlaybackFrame(play_i))
          /\ CASE ApplyOutcome(k) \in {"sent", "skipped"} ->
                     /\ prev_action' = PrevActionAfter(PlaybackFrame(play_i))
                     /\ play_i' = play_i + 1
                     /\ IF play_i + 1 = Len(env_chunk)
                        THEN pc' = "step" /\ steps' = steps + 1
                        ELSE pc' = "play" /\ steps' = steps
                     /\ UNCHANGED <<ctx, exc>>
               [] ApplyOutcome(k) = "quit" ->
                     /\ RaiseKeyboardInterrupt("run")
                     /\ UNCHANGED <<prev_action, play_i, steps, ctx>>
               [] ApplyOutcome(k) = "paused" ->
                     /\ pc' = "paused"
                     /\ ctx' = "run"
                     /\ UNCHANGED <<prev_action, play_i, steps, exc>>
    /\ UNCHANGED <<brokerVars, clampVars, auxVars, stdin, home_k, env_chunk, env_interp, interp_j,
                   interp_n, interp_sent, fin_k>>

\* the command of the tick in progress
TickCmd ==
    IF pc = "interp"
    THEN InterpCmd(prev_action, env_chunk[1], interp_j, interp_n)
    ELSE PlaybackFrame(play_i)

TickSrc == IF pc = "interp" THEN "interp" ELSE "frame"

\* a tick of env.apply_action whose bus write raises inside _send_action
\* (the poll found no key): send_action has no handler around
\* "with self.serial_lock: self._send_action(action_dict)", neither have
\* controller.apply_action and the loops of env.apply_action, so the error
\* leaves rt.run() and reaches main's "except Exception".  A failure counts
\* as one of the MaxKeys outside events of a run.
BusWriteFails ==
    /\ pc \in {"interp", "play"}
    /\ ctl_connected /\ drv_connected
    /\ keys_used < MaxKeys
    /\ keys_used' = keys_used + 1
    /\ ctl_call' = [kind |-> "failed", cmd |-> TickCmd, src |-> TickSrc,
                    polls |-> 1, key |-> "none", sent |-> FALSE]
    /\ RaiseException("run")
    /\ BusUnchanged
    /\ UNCHANGED <<brokerVars, clampVars, auxVars, stdin, home_k, key_log, drv_connected,
                   ctl_connected, term, envVars, ctx, fin_k, steps>>

\* mutant: the second space leaves the pause loop and the interrupted loop
\* of env.apply_action goes on
PausedKeyResumes ==
    /\ pc = "paused"
    /\ \E k \in Keys \ {"none"} :
          /\ KeyAllowed(k)
          /\ keys_used' = KeysAfter(k)
          /\ key_log' = Append(key_log, <<"paused", k>>)
          /\ CASE PauseOutcome(k) = "quit" -> RaiseKeyboardInterrupt(ctx)
               [] PauseOutcome(k) = "reset" ->
                     /\ pc' = IF ctl_call.src = "interp" THEN "interp"
                              ELSE IF ctl_call.src = "frame" THEN "play"
                              ELSE "final"
                     /\ exc' = exc
               [] PauseOutcome(k) = "stay" -> UNCHANGED <<pc, exc>>
    /\ UNCHANGED <<brokerVars, clampVars, auxVars, stdin, home_k, ctl_call,
                   driverVars, ctl_connected, term,
                   envVars, ctx, fin_k, steps>>

\* check_user_input's pause loop reads a key: space raises
\* RobotResetException, q raises KeyboardInterrupt, anything else is dropped
PausedKey ==
    /\ pc = "paused"
    /\ \E k \in Keys \ {"none"} :
          /\ KeyAllowed(k)
          /\ keys_used' = KeysAfter(k)
          /\ key_log' = Append(key_log, <<"paused", k>>)
          /\ CASE PauseOutcome(k) = "quit" -> RaiseKeyboardInterrupt(ctx)
               [] PauseOutcome(k) = "reset" -> RaiseException(ctx)
               [] PauseOutcome(k) = "stay" -> UNCHANGED <<pc, exc>>
    /\ UNCHANGED <<brokerVars, clampVars, auxVars, stdin, home_k, ctl_call,
                   driverVars, ctl_connected, term,
                   envVars, ctx, fin_k, steps>>

\* Ctrl+C while rt.run() is executing
SigInt ==
    /\ \/ pc \in {"step", "apply", "runinterp", "interp", "play"}
       \/ pc = "paused" /\ ctx = "run"
    /\ keys_used < MaxKeys
    /\ keys_used' = keys_used + 1
    /\ RaiseKeyboardInterrupt("run")
    /\ UNCHANGED <<brokerVars, clampVars, auxVars, opVars, driverVars, ctl_connected, term,
                   envVars, ctx, fin_k, steps>>

\* main's except KeyboardInterrupt block: one zero-pose command
KbintHandler ==
    /\ pc = "kbint"
    /\ \E k \in Keys :
          /\ ControllerApplyAction(ZeroPose, k, "kbint")
          /\ CASE ApplyOutcome(k) \in {"sent", "skipped"} ->
                     /\ pc' = "final"
                     /\ UNCHANGED <<ctx, exc>>
               [] ApplyOutcome(k) = "quit" ->
                     /\ RaiseKeyboardInterrupt("kbint")
                     /\ UNCHANGED ctx
               [] ApplyOutcome(k) = "paused" ->
                     /\ pc' = "paused"
                     /\ ctx' = "kbint"
                     /\ UNCHANGED exc
    /\ UNCHANGED <<brokerVars, clampVars, auxVars, stdin, home_k, envVars, fin_k, steps>>

\* one iteration of the finally block's homing loop
FinalStep ==
    /\ pc = "final"
    /\ \E k \in Keys :
          /\ ControllerApplyAction(ZeroPose, k, "shutdown")
          /\ CASE ApplyOutcome(k) \in {"sent", "skipped"} ->
                     /\ fin_k' = fin_k + 1
                     /\ pc' = IF fin_k + 1 = SHUTDOWN_STEPS THEN "closing"
                              ELSE "final"
                     /\ UNCHANGED <<ctx, exc>>
               [] ApplyOutcome(k) = "quit" ->
                     /\ RaiseKeyboardInterrupt("final")
                     /\ UNCHANGED <<fin_k, ctx>>
               [] ApplyOutcome(k) = "paused" ->
                     /\ pc' = "paused"
                     /\ ctx' = "final"
                     /\ UNCHANGED <<fin_k, exc>>
    /\ UNCHANGED <<brokerVars, clampVars, auxVars, stdin, home_k, envVars, steps>>

\* env.close() at the end of the finally block
EnvClose ==
    /\ pc = "closing"
    /\ ControllerClose
    /\ pc' = "exit"
    /\ BusUnchanged
    /\ UNCHANGED <<brokerVars, clampVars, auxVars, opVars, keys_used, envVars, ctx, exc,
                   fin_k, steps>>

Next ==
    \/ RuntimeStart
    \/ RuntimeInfer
    \/ RuntimeInferRaises
    \/ EnvApplyAction
    \/ RunInterpolation
    \/ InterpStep
    \/ PlayFrame
    \/ BusWriteFails
    \/ PausedKey
    \/ SigInt
    \/ KbintHandler
    \/ FinalStep
    \/ EnvClose

Spec == Init /\ [][Next]_vars

-----------------------------------------------------------------------------
(* _run_interpolation on its own: any start and target pose of a small set, *)
(* any steps argument, the operator's keys as in the composed system.       *)

\* arm values are multiples of RAD * 3 / 20, so that every fraction j/(N+1)
\* of a difference is exact
InterpPoses ==
    LET u == (RAD * 3) \div 20
    IN {ZeroPose,
        [j \in 1..DOF |-> IF j = 1 THEN 4 * u ELSE IF j = DOF THEN RAD ELSE 0],
        [j \in 1..DOF |-> IF j <= ARM THEN (j - 3) * u ELSE RAD \div 2],
        [j \in 1..DOF |-> IF j <= ARM THEN (j - 3) * u ELSE 0]}

\* the steps arguments tried: none and negative, small ones, and the
\* INTERP_STEPS env.apply_action passes
InterpStepCounts == (-1..MaxInterpSteps) \cup {INTERP_STEPS}

InitInterp ==
    /\ BrokerInit(1)
    /\ OperatorIdle
    /\ ClampInit
    /\ AuxIdle
    /\ drv_connected = TRUE
    /\ bus_last = <<>>
    /\ bus_cmd = <<>>
    /\ bus_src = "none"
    /\ bus_srcs = {}
    /\ bus_n = 0
    /\ bus_clamped = {}
    /\ ctl_connected = TRUE
    /\ term = "cbreak"
    /\ keys_used = 0
    /\ prev_action \in InterpPoses
    /\ \E target \in InterpPoses : env_chunk = <<target>>
    /\ env_interp = TRUE
    /\ interp_j = 0
    /\ interp_n \in InterpStepCounts
    /\ interp_sent = <<>>
    /\ play_i = 0
    /\ play_log = <<>>
    /\ pc = "runinterp"
    /\ ctx = "run"
    /\ exc = "none"
    /\ fin_k = 0
    /\ steps = 0

NextInterp == RunInterpolation \/ InterpStep

SpecInterp == InitInterp /\ [][NextInterp]_vars

-----------------------------------------------------------------------------
(* MKController on its own, followed step by step: a caller passes commands *)
(* to controller.apply_action while the operator types keys; the home       *)
(* sequence is one bus command per step.                                    *)

\* the commands the caller passes
CtlCmds == InterpPoses \ {ZeroPose}

\* the keys an operator can type
TypedKeys == Keys \ {"none"}

InitCtl ==
    /\ BrokerInit(1)
    /\ ClampInit
    /\ AuxIdle
    /\ OperatorIdle
    /\ drv_connected = TRUE
    /\ bus_last = <<>>
    /\ bus_cmd = <<>>
    /\ bus_src = "none"
    /\ bus_srcs = {}
    /\ bus_n = 0
    /\ bus_clamped = {}
    /\ ctl_connected = TRUE
    /\ term = "cbreak"
    /\ keys_used = 0
    /\ prev_action = <<>>
    /\ env_chunk = <<>>
    /\ env_interp = FALSE
    /\ interp_j = 0
    /\ interp_n = 0
    /\ interp_sent = <<>>
    /\ play_i = 0
    /\ play_log = <<>>
    /\ pc = "running"
    /\ ctx = "run"
    /\ exc = "none"
    /\ fin_k = 0
    /\ steps = 0

\* the operator types a key; it waits on stdin until a poll reads it
TypeKey ==
    /\ pc \in {"running", "homing", "paused"}
    /\ Len(stdin) + Len(key_log) < MaxTyped
    /\ \E k \in TypedKeys : stdin' = Append(stdin, k)
    /\ UNCHANGED <<brokerVars, clampVars, auxVars, pipeVars, home_k, key_log, ctl_call>>

\* controller.apply_action(cmd) up to the send, the raise or the start of the
\* home sequence
CtlApplyAction ==
    /\ pc = "running"
    /\ \E cmd \in CtlCmds :
          LET polled == ctl_connected
              k == IF polled /\ stdin # <<>> THEN Head(stdin) ELSE "none"
              out == ApplyOutcome(k)
          IN /\ stdin' = IF k = "none" THEN stdin ELSE Tail(stdin)
             /\ key_log' = IF k = "none" THEN key_log
                           ELSE Append(key_log, <<"frame", k>>)
             /\ keys_used' = KeysAfter(k)
             /\ ctl_call' = CallRecord(cmd, k, "frame")
             /\ CASE out = "skipped" ->
                        /\ BusUnchanged
                        /\ UNCHANGED <<ctl_connected, term, drv_connected,
                                       pc, exc, home_k>>
                  [] out = "sent" ->
                        /\ DriverSendAction(cmd, "frame", 1)
                        /\ UNCHANGED <<ctl_connected, term, drv_connected,
                                       pc, exc, home_k>>
                  [] out = "quit" ->
                        /\ ControllerClose
                        /\ BusUnchanged
                        /\ pc' = "raised"
                        /\ exc' = "KeyboardInterrupt"
                        /\ UNCHANGED home_k
                  [] out = "paused" ->
                        /\ BusUnchanged
                        /\ pc' = "homing"
                        /\ home_k' = 0
                        /\ UNCHANGED <<ctl_connected, term, drv_connected, exc>>
    /\ UNCHANGED <<brokerVars, clampVars, auxVars, envVars, ctx, fin_k, steps>>

\* mutant: the home loop looks at stdin and stops when a key is waiting
HomeStepPolls ==
    /\ pc = "homing"
    /\ DriverSendAction(ZeroPose, "home", home_k + 1)
    /\ home_k' = home_k + 1
    /\ pc' = IF home_k + 1 = HOME_STEPS \/ stdin # <<>> THEN "paused"
             ELSE "homing"
    /\ UNCHANGED <<brokerVars, clampVars, auxVars, drv_connected, ctlVars, envVars,
                   ctx, exc, fin_k, steps, stdin, key_log, ctl_call>>

\* one iteration of perform_home_sequence's loop
HomeStep ==
    /\ pc = "homing"
    /\ DriverSendAction(ZeroPose, "home", home_k + 1)
    /\ home_k' = home_k + 1
    /\ pc' = IF home_k + 1 = HOME_STEPS THEN "paused" ELSE "homing"
    /\ UNCHANGED <<brokerVars, clampVars, auxVars, drv_connected, ctlVars, envVars,
                   ctx, exc, fin_k, steps, stdin, key_log, ctl_call>>

\* mutant: on the second space the pause loop lets the interrupted call go
\* on to its send
PauseLoopReadSendsPending ==
    /\ pc = "paused"
    /\ stdin # <<>>
    /\ LET k == Head(stdin)
       IN /\ stdin' = Tail(stdin)
          /\ key_log' = Append(key_log, <<"paused", k>>)
          /\ keys_used' = KeysAfter(k)
          /\ CASE PauseOutcome(k) = "reset" ->
                     /\ pc' = "raised" /\ exc' = "RobotResetException"
                     /\ DriverSendAction(ctl_call.cmd, "frame", 1)
               [] PauseOutcome(k) = "quit" ->
                     /\ pc' = "raised" /\ exc' = "KeyboardInterrupt"
                     /\ BusUnchanged
               [] PauseOutcome(k) = "stay" ->
                     UNCHANGED <<pc, exc, bus_last, bus_cmd, bus_src,
                                 bus_srcs, bus_n, bus_clamped>>
    /\ UNCHANGED <<brokerVars, clampVars, auxVars, drv_connected, ctl_connected, term,
                   envVars, ctx, fin_k, steps, home_k, ctl_call>>

\* the pause loop reads a waiting key
PauseLoopRead ==
    /\ pc = "paused"
    /\ stdin # <<>>
    /\ LET k == Head(stdin)
       IN /\ stdin' = Tail(stdin)
          /\ key_log' = Append(key_log, <<"paused", k>>)
          /\ keys_used' = KeysAfter(k)
          /\ CASE PauseOutcome(k) = "reset" ->
                     pc' = "raised" /\ exc' = "RobotResetException"
               [] PauseOutcome(k) = "quit" ->
                     pc' = "raised" /\ exc' = "KeyboardInterrupt"
               [] PauseOutcome(k) = "stay" ->
                     UNCHANGED <<pc, exc>>
    /\ UNCHANGED <<brokerVars, clampVars, auxVars, driverVars, ctl_connected, term,
                   envVars, ctx, fin_k, steps, home_k, ctl_call>>

NextCtl == TypeKey \/ CtlApplyAction \/ HomeStep \/ PauseLoopRead

SpecCtl == InitCtl /\ [][NextCtl]_vars

\* the same controller with the control thread kept running: a home loop
\* that has started goes on to its next iteration
SpecCtlFair == SpecCtl /\ WF_vars(HomeStep)

-----------------------------------------------------------------------------
(* hardware/test_robot_cam.py: the main thread teleoperates the arm while   *)
(* the camera thread reads observations from the same driver.               *)

\* key presses handed to the two threads in one run
MaxCamKeys == 3

\* JOINT_STEP = 0.05, GRIPPER_STEP = 0.1
JOINT_STEP == RAD \div 20
GRIPPER_STEP == RAD \div 10

\* the motors a run selects: joint 1 and the gripper
TeleopMotors == {1, DOF}

CamFrame ==
    UNCHANGED <<brokerVars, clampVars, opVars, envVars, mainVars,
                ctl_connected, term, paceVars, calVars, loaderVars>>

BusHistoryUnchanged ==
    UNCHANGED <<bus_last, bus_cmd, bus_src, bus_srcs, bus_n, bus_clamped>>

\* the joint positions the motors report: where the last target put them
MotorPositions == IF bus_last = <<>> THEN ZeroPose ELSE bus_last

InitCam ==
    /\ BrokerInit(1)
    /\ ClampInit
    /\ OperatorIdle
    /\ drv_connected = FALSE
    /\ bus_last = <<>>
    /\ bus_cmd = <<>>
    /\ bus_src = "none"
    /\ bus_srcs = {}
    /\ bus_n = 0
    /\ bus_clamped = {}
    /\ ctl_connected = FALSE
    /\ term = "cbreak"
    /\ keys_used = 0
    /\ prev_action = <<>>
    /\ env_chunk = <<>>
    /\ env_interp = FALSE
    /\ interp_j = 0
    /\ interp_n = 0
    /\ interp_sent = <<>>
    /\ play_i = 0
    /\ play_log = <<>>
    /\ pc = "idle"
    /\ ctx = "run"
    /\ exc = "none"
    /\ fin_k = 0
    /\ steps = 0
    /\ PaceIdle
    /\ CalIdle
    /\ LoaderIdle
    /\ thr_pc = [main |-> "connect", cam |-> "unstarted"]
    /\ thr_last = "none"
    /\ lock_owner = "none"
    /\ bus_users = {}
    /\ running = TRUE
    /\ latest_obs = <<>>
    /\ target_pos = <<>>

\* robot.connect(): the port opens, is_connected = True, configure() starts
\* talking to the motors
CamConnect ==
    /\ thr_pc.main = "connect"
    /\ thr_pc' = [thr_pc EXCEPT !.main = "configure"]
    /\ thr_last' = "main"
    /\ drv_connected' = TRUE
    /\ bus_users' = bus_users \cup {"main"}
    /\ BusHistoryUnchanged /\ CamFrame
    /\ UNCHANGED <<keys_used, lock_owner, running, latest_obs, target_pos>>

\* robot.connect() raises: main prints the error and returns
CamConnectFails ==
    /\ thr_pc.main = "connect"
    /\ thr_pc' = [thr_pc EXCEPT !.main = "done"]
    /\ thr_last' = "main"
    /\ BusHistoryUnchanged /\ CamFrame
    /\ UNCHANGED <<drv_connected, keys_used, lock_owner, bus_users, running,
                   latest_obs, target_pos>>

\* configure() is through, connect() returns
CamConfigured ==
    /\ thr_pc.main = "configure"
    /\ thr_pc' = [thr_pc EXCEPT !.main = "start"]
    /\ thr_last' = "main"
    /\ bus_users' = bus_users \ {"main"}
    /\ BusHistoryUnchanged /\ CamFrame
    /\ UNCHANGED <<drv_connected, keys_used, lock_owner, running, latest_obs,
                   target_pos>>

\* display_thread.start()
CamStartThread ==
    /\ thr_pc.main = "start"
    /\ thr_pc' = [main |-> "wait_first", cam |-> "loop"]
    /\ thr_last' = "main"
    /\ BusHistoryUnchanged /\ CamFrame
    /\ UNCHANGED <<drv_connected, keys_used, lock_owner, bus_users, running,
                   latest_obs, target_pos>>

\* "while latest_obs is None and running" is left: return if the camera
\* window was closed, else target_pos = latest_obs["state"][:7]
CamWaitFirst ==
    /\ thr_pc.main = "wait_first"
    /\ latest_obs # <<>> \/ ~running
    /\ IF ~running
       THEN /\ thr_pc' = [thr_pc EXCEPT !.main = "done"]
            /\ target_pos' = target_pos
       ELSE /\ thr_pc' = [thr_pc EXCEPT !.main = "teleop"]
            /\ target_pos' = latest_obs
    /\ thr_last' = "main"
    /\ BusHistoryUnchanged /\ CamFrame
    /\ UNCHANGED <<drv_connected, keys_used, lock_owner, bus_users, running,
                   latest_obs>>

\* the target after an arrow key on motor i (d = +1: UP, -1: DOWN)
TeleopTarget(i, d) ==
    LET step == IF i = DOF THEN GRIPPER_STEP ELSE JOINT_STEP
    IN [target_pos EXCEPT
          ![i] = Clip(target_pos[i] + d * step, LimitOf(i)[1], LimitOf(i)[2])]

\* the teleoperation loop reads a key: ESC (or the flag found cleared) ends
\* it, an arrow on the selected motor moves the target and sends it
CamTeleopKey ==
    /\ thr_pc.main = "teleop"
    /\ keys_used < MaxCamKeys
    /\ keys_used' = keys_used + 1
    /\ thr_last' = "main"
    /\ \E key \in {"ESC", "UP", "DOWN"}, i \in TeleopMotors :
          IF key = "ESC" \/ ~running
          THEN /\ thr_pc' = [thr_pc EXCEPT !.main = "finally"]
               /\ target_pos' = target_pos
          ELSE /\ thr_pc' = [thr_pc EXCEPT !.main = "send_wait"]
               /\ target_pos' = TeleopTarget(i, IF key = "UP" THEN 1 ELSE -1)
    /\ BusHistoryUnchanged /\ CamFrame
    /\ UNCHANGED <<drv_connected, lock_owner, bus_users, running, latest_obs>>

\* mutant: send_action goes to the bus without taking serial_lock
CamSendAcquireNoLock ==
    /\ thr_pc.main = "send_wait"
    /\ thr_pc' = [thr_pc EXCEPT !.main = "send_bus"]
    /\ thr_last' = "main"
    /\ lock_owner' = lock_owner
    /\ bus_users' = bus_users \cup {"main"}
    /\ BusHistoryUnchanged /\ CamFrame
    /\ UNCHANGED <<drv_connected, keys_used, running, latest_obs, target_pos>>

\* robot.send_action(target_pos): "with self.serial_lock:" is entered and
\* _send_action starts writing to the motors
CamSendAcquire ==
    /\ thr_pc.main = "send_wait"
    /\ lock_owner = "none"
    /\ thr_pc' = [thr_pc EXCEPT !.main = "send_bus"]
    /\ thr_last' = "main"
    /\ lock_owner' = "main"
    /\ bus_users' = bus_users \cup {"main"}
    /\ BusHistoryUnchanged /\ CamFrame
    /\ UNCHANGED <<drv_connected, keys_used, running, latest_obs, target_pos>>

\* _send_action has written the target, the lock is released
CamSendRelease ==
    /\ thr_pc.main = "send_bus"
    /\ thr_pc' = [thr_pc EXCEPT !.main = "teleop"]
    /\ thr_last' = "main"
    /\ lock_owner' = IF lock_owner = "main" THEN "none" ELSE lock_owner
    /\ bus_users' = bus_users \ {"main"}
    /\ DriverSendAction(target_pos, "teleop", 1)
    /\ CamFrame
    /\ UNCHANGED <<drv_connected, keys_used, running, latest_obs, target_pos>>

\* Ctrl+C while the main thread waits for a key
CamInterrupt ==
    /\ thr_pc.main = "teleop"
    /\ keys_used < MaxCamKeys
    /\ keys_used' = keys_used + 1
    /\ thr_pc' = [thr_pc EXCEPT !.main = "finally"]
    /\ thr_last' = "main"
    /\ BusHistoryUnchanged /\ CamFrame
    /\ UNCHANGED <<drv_connected, lock_owner, bus_users, running, latest_obs,
                   target_pos>>

\* finally: running = False
CamFinally ==
    /\ thr_pc.main = "finally"
    /\ thr_pc' = [thr_pc EXCEPT !.main = "join"]
    /\ thr_last' = "main"
    /\ running' = FALSE
    /\ BusHistoryUnchanged /\ CamFrame
    /\ UNCHANGED <<drv_connected, keys_used, lock_owner, bus_users, latest_obs,
                   target_pos>>

\* display_thread.join() returns, robot.disconnect() starts disabling the
\* motors
CamJoin ==
    /\ thr_pc.main = "join"
    /\ thr_pc.cam = "done"
    /\ thr_pc' = [thr_pc EXCEPT !.main = "disconnect"]
    /\ thr_last' = "main"
    /\ bus_users' = bus_users \cup {"main"}
    /\ BusHistoryUnchanged /\ CamFrame
    /\ UNCHANGED <<drv_connected, keys_used, lock_owner, running, latest_obs,
                   target_pos>>

\* disconnect() has closed the port: is_connected = False
CamDisconnected ==
    /\ thr_pc.main = "disconnect"
    /\ thr_pc' = [thr_pc EXCEPT !.main = "done"]
    /\ thr_last' = "main"
    /\ bus_users' = bus_users \ {"main"}
    /\ drv_connected' = FALSE
    /\ BusHistoryUnchanged /\ CamFrame
    /\ UNCHANGED <<keys_used, lock_owner, running, latest_obs, target_pos>>

\* camera_loop: "while running:"
CamLoopHead ==
    /\ thr_pc.cam = "loop"
    /\ thr_pc' = [thr_pc EXCEPT !.cam = IF running THEN "obs_wait" ELSE "done"]
    /\ thr_last' = "cam"
    /\ BusHistoryUnchanged /\ CamFrame
    /\ UNCHANGED <<drv_connected, keys_used, lock_owner, bus_users, running,
                   latest_obs, target_pos>>

\* robot.get_observation(): "with self.serial_lock:" is entered and
\* _get_observation starts refreshing the motors
CamObsAcquire ==
    /\ thr_pc.cam = "obs_wait"
    /\ lock_owner = "none"
    /\ thr_pc' = [thr_pc EXCEPT !.cam = "obs_bus"]
    /\ thr_last' = "cam"
    /\ lock_owner' = "cam"
    /\ bus_users' = IF drv_connected THEN bus_users \cup {"cam"} ELSE bus_users
    /\ BusHistoryUnchanged /\ CamFrame
    /\ UNCHANGED <<drv_connected, keys_used, running, latest_obs, target_pos>>

\* the motors are read, the lock is released, the observation is published:
\* "with obs_lock: latest_obs = obs"
CamObsRelease ==
    /\ thr_pc.cam = "obs_bus"
    /\ thr_pc' = [thr_pc EXCEPT !.cam = "show"]
    /\ thr_last' = "cam"
    /\ lock_owner' = "none"
    /\ bus_users' = bus_users \ {"cam"}
    /\ latest_obs' = ObsState(MotorPositions)
    /\ BusHistoryUnchanged /\ CamFrame
    /\ UNCHANGED <<drv_connected, keys_used, running, target_pos>>

\* the frames are shown; cv2.waitKey(30) returns q or nothing
CamShow ==
    /\ thr_pc.cam = "show"
    /\ thr_last' = "cam"
    /\ \E q \in BOOLEAN :
          IF q
          THEN /\ keys_used < MaxCamKeys
               /\ keys_used' = keys_used + 1
               /\ running' = FALSE
               /\ thr_pc' = [thr_pc EXCEPT !.cam = "done"]
          ELSE /\ UNCHANGED <<keys_used, running>>
               /\ thr_pc' = [thr_pc EXCEPT !.cam = "loop"]
    /\ BusHistoryUnchanged /\ CamFrame
    /\ UNCHANGED <<drv_connected, lock_owner, bus_users, latest_obs, target_pos>>

NextCam ==
    \/ CamConnect
    \/ CamConnectFails
    \/ CamConfigured
    \/ CamStartThread
    \/ CamWaitFirst
    \/ CamTeleopKey
    \/ CamSendAcquire
    \/ CamSendRelease
    \/ CamInterrupt
    \/ CamFinally
    \/ CamJoin
    \/ CamDisconnected
    \/ CamLoopHead
    \/ CamObsAcquire
    \/ CamObsRelease
    \/ CamShow

SpecCam == InitCam /\ [][NextCam]_vars

-----------------------------------------------------------------------------
(* The timed loops: the playback loop of env.apply_action, the loop of      *)
(* _run_interpolation and the replay loop of test_hardware_replay.py, each  *)
(* iteration with a measured duration of its work.                          *)

\* the longest an iteration's work takes, and the longest run, in time units
MaxElapsed == 6
MaxClock == 12

\* dt = 1.0 / control_hz, in time units
PACE_DT == 4

\* mutant: time.sleep(dt - elapsed) whatever its sign
SleptUnguarded(dt, elapsed) == dt - elapsed

\* sleep_time = dt - elapsed; if sleep_time > 0: time.sleep(sleep_time)
Slept(dt, elapsed) == IF dt - elapsed > 0 THEN dt - elapsed ELSE 0

\* the playback loop sleeps only "if chunk_len > 1"
PlaybackSlept(chunk_len, dt, elapsed) ==
    IF chunk_len > 1 THEN Slept(dt, elapsed) ELSE 0

InitPace ==
    /\ BrokerInit(1)
    /\ ClampInit
    /\ PipeIdle
    /\ CamIdle
    /\ PaceIdle
    /\ CalIdle
    /\ LoaderIdle

PaceFrame ==
    UNCHANGED <<brokerVars, clampVars, pipeVars, opVars, camVars, calVars,
                loaderVars>>

\* one iteration of the playback loop of an action of chunk_len frames
PacePlayback ==
    /\ pace_clock < MaxClock
    /\ \E n \in 1..MaxLen, e \in 0..MaxElapsed :
          /\ pace_loop' = "play"
          /\ pace_len' = n
          /\ pace_elapsed' = e
          /\ pace_slept' = PlaybackSlept(n, PACE_DT, e)
          /\ pace_clock' = pace_clock + e + PlaybackSlept(n, PACE_DT, e)
    /\ PaceFrame

\* one iteration of _run_interpolation's loop
PaceInterp ==
    /\ pace_clock < MaxClock
    /\ \E e \in 0..MaxElapsed :
          /\ pace_loop' = "interp"
          /\ pace_elapsed' = e
          /\ pace_slept' = Slept(PACE_DT, e)
          /\ pace_clock' = pace_clock + e + Slept(PACE_DT, e)
    /\ pace_len' = pace_len
    /\ PaceFrame

\* one iteration of the replay loop: env.apply_action({"actions": action_real})
\* plays its single frame without sleeping, then the loop sleeps
PaceReplay ==
    /\ pace_clock < MaxClock
    /\ \E e \in 0..MaxElapsed :
          /\ pace_loop' = "replay"
          /\ pace_len' = 1
          /\ pace_elapsed' = e
          /\ pace_slept' = PlaybackSlept(1, PACE_DT, e) + Slept(PACE_DT, e)
          /\ pace_clock' = pace_clock + e + PlaybackSlept(1, PACE_DT, e)
                           + Slept(PACE_DT, e)
    /\ PaceFrame

NextPace == PacePlayback \/ PaceInterp \/ PaceReplay

SpecPace == InitPace /\ [][NextPace]_vars

-----------------------------------------------------------------------------
(* The environment on its own: a caller applies actions of every accepted   *)
(* shape, with the is_new_chunk flag set, cleared or left out, and resets   *)
(* the environment between them; the operator's keys as in the composed     *)
(* system.  An exception ends the run, as in every caller of the module.    *)

\* calls of env.apply_action in one run
MaxEnvCalls == 3

\* is_new_chunk as a Python bool and as a numpy bool
FlagValues == {PyObj(0), PyObj(1), NdArray(<<>>, <<0>>), NdArray(<<>>, <<1>>)}

EnvActionArrays ==
    {ActionsVec(0), ActionsArr(MaxSeed, MaxLen), ActionsBatch(MaxSeed, 2),
     ActionsBatchOfTwo(0, 2)}

\* the actions a run applies
EnvActions ==
    {[k \in {K_actions} |-> a] : a \in EnvActionArrays}
    \cup {[k \in {K_actions, K_is_new_chunk} |->
              IF k = K_actions THEN a ELSE f] :
          a \in EnvActionArrays, f \in FlagValues}

\* the environment and its controller as main builds them, no action yet
InitEnv ==
    /\ BrokerInit(1)
    /\ OperatorIdle
    /\ ClampInit
    /\ AuxIdle
    /\ drv_connected = TRUE
    /\ bus_last = <<>>
    /\ bus_cmd = <<>>
    /\ bus_src = "none"
    /\ bus_srcs = {}
    /\ bus_n = 0
    /\ bus_clamped = {}
    /\ ctl_connected = TRUE
    /\ term = "cbreak"
    /\ keys_used = 0
    /\ prev_action = <<>>
    /\ env_chunk = <<>>
    /\ env_interp = FALSE
    /\ interp_j = 0
    /\ interp_n = 0
    /\ interp_sent = <<>>
    /\ play_i = 0
    /\ play_log = <<>>
    /\ pc = "step"
    /\ ctx = "run"
    /\ exc = "none"
    /\ fin_k = 0
    /\ steps = 0

\* the caller hands an action to apply_action
EnvCallerApply ==
    /\ pc = "step"
    /\ steps < MaxEnvCalls
    /\ \E action \in EnvActions : bout' = [kind |-> "ok", val |-> action]
    /\ pc' = "apply"
    /\ UNCHANGED <<action_horizon, last_results, cur_step, last_op, raw_last,
                   pcalls, run_calls, chunk_calls, run_len, run_err,
                   clampVars, auxVars, opVars, driverVars, ctlVars, envVars,
                   ctx, exc, fin_k, steps>>

\* env.reset(): prev_action = None
EnvReset ==
    /\ pc = "step"
    /\ prev_action # <<>>
    /\ prev_action' = <<>>
    /\ UNCHANGED <<brokerVars, clampVars, auxVars, opVars, driverVars, ctlVars,
                   env_chunk, env_interp, interp_j, interp_n, interp_sent,
                   play_i, play_log, mainVars>>

NextEnv ==
    \/ EnvCallerApply
    \/ EnvReset
    \/ EnvApplyAction
    \/ RunInterpolation
    \/ InterpStep
    \/ PlayFrame
    \/ PausedKey

SpecEnv == InitEnv /\ [][NextEnv]_vars

-----------------------------------------------------------------------------
(* EpisodeActionLoader on its own: an episode of any small length, read and *)
(* reset in any order.                                                      *)

\* frames of a loaded episode, and get_action calls in one run
MaxFrames == 4
MaxLoaderCalls == 6

\* the episodes a run loads: frame i of the file is PolicyFrame(0, i + 1)
Episodes == {[i \in 1..n |-> PolicyFrame(0, i)] : n \in 0..MaxFrames}

\* __init__: the file is read, current_idx = 0
LoaderInit ==
    /\ ld_frames \in Episodes
    /\ ld_idx = 0
    /\ ld_out = [kind |-> "none"]
    /\ ld_log = <<>>
    /\ ld_calls = 0
    /\ rp_sent = <<>>

InitLoader ==
    /\ BrokerInit(1)
    /\ ClampInit
    /\ PipeIdle
    /\ CamIdle
    /\ PaceIdle
    /\ CalIdle
    /\ LoaderInit

\* mutant: the cursor moves on even when the episode is exhausted
CursorAlwaysAdvances(idx, total) == idx + 1

\* current_idx after get_action: unchanged on the None return, else + 1
CursorAfter(idx, total) == IF idx >= total THEN idx ELSE idx + 1

\* what get_action returns at cursor idx
LoaderReturn(idx) ==
    IF idx >= Len(ld_frames) THEN None
    ELSE [kind |-> "ok", val |-> NdArray(<<DOF>>, ld_frames[idx + 1])]

\* loader.get_action(), the state of the loader after it
LoaderGetAction ==
    /\ ld_out' = LoaderReturn(ld_idx)
    /\ ld_idx' = CursorAfter(ld_idx, Len(ld_frames))
    /\ ld_log' = Append(ld_log, LoaderReturn(ld_idx))
    /\ ld_calls' = ld_calls + 1
    /\ UNCHANGED ld_frames

LoaderFrame ==
    UNCHANGED <<brokerVars, clampVars, pipeVars, opVars, camVars, paceVars,
                calVars>>

GetAction ==
    /\ ld_calls < MaxLoaderCalls
    /\ LoaderGetAction
    /\ UNCHANGED rp_sent
    /\ LoaderFrame

\* loader.reset(): current_idx = 0
LoaderReset ==
    /\ ld_log # <<>>
    /\ ld_idx' = 0
    /\ ld_log' = <<>>
    /\ UNCHANGED <<ld_frames, ld_out, ld_calls, rp_sent>>
    /\ LoaderFrame

NextLoader == GetAction \/ LoaderReset

SpecLoader == InitLoader /\ [][NextLoader]_vars

-----------------------------------------------------------------------------
(* test_hardware_replay.py: the loaded episode is replayed frame by frame,  *)
(* then the arm is homed.  The operator may stop the replay with Ctrl+C.    *)

\* range(100) of the replay script's homing loop
REPLAY_HOME_STEPS == 100

InitReplay ==
    /\ BrokerInit(1)
    /\ OperatorIdle
    /\ ClampInit
    /\ CamIdle
    /\ PaceIdle
    /\ CalIdle
    /\ LoaderInit
    /\ drv_connected = TRUE
    /\ bus_last = <<>>
    /\ bus_cmd = <<>>
    /\ bus_src = "none"
    /\ bus_srcs = {}
    /\ bus_n = 0
    /\ bus_clamped = {}
    /\ ctl_connected = TRUE
    /\ term = "cbreak"
    /\ keys_used = 0
    /\ prev_action = <<>>
    /\ env_chunk = <<>>
    /\ env_interp = FALSE
    /\ interp_j = 0
    /\ interp_n = 0
    /\ interp_sent = <<>>
    /\ play_i = 0
    /\ play_log = <<>>
    /\ pc = "rp_peek"
    /\ ctx = "run"
    /\ exc = "none"
    /\ fin_k = 0
    /\ steps = 0

ReplayFrame ==
    UNCHANGED <<brokerVars, clampVars, opVars, driverVars, ctlVars, envVars,
                ctx, exc, camVars, paceVars, calVars>>

\* "start_action_norm = loader.get_action()": the first frame is read for
\* the initial position (and not used)
ReplayPeek ==
    /\ pc = "rp_peek"
    /\ LoaderGetAction
    /\ pc' = "rp_start"
    /\ UNCHANGED <<rp_sent, fin_k, steps>>
    /\ ReplayFrame

\* loader.get_start_state() reads row 0 (IndexError on an empty episode,
\* caught by "except Exception"), then the operator confirms with return
ReplayStart ==
    /\ pc = "rp_start"
    /\ pc' = IF ld_frames = <<>> THEN "rp_home" ELSE "rp_loop"
    /\ UNCHANGED <<loaderVars, fin_k, steps>>
    /\ ReplayFrame

\* one iteration of the replay loop: the next action is read; None ends the
\* loop with "Episode finished.", anything else is scaled and applied
ReplayTick ==
    /\ pc = "rp_loop"
    /\ LoaderGetAction
    /\ IF LoaderReturn(ld_idx) = None
       THEN /\ pc' = "rp_finished"
            /\ UNCHANGED <<rp_sent, steps>>
       ELSE /\ pc' = "rp_loop"
            /\ rp_sent' = Append(rp_sent,
                                 Denormalize(LoaderReturn(ld_idx).val).flat)
            /\ steps' = steps + 1
    /\ UNCHANGED fin_k
    /\ ReplayFrame

\* Ctrl+C during the replay loop: "Stopped by user."
ReplayInterrupt ==
    /\ pc = "rp_loop"
    /\ pc' = "rp_home"
    /\ UNCHANGED <<loaderVars, fin_k, steps>>
    /\ ReplayFrame

\* the loop was left by break: on to the finally block
ReplayFinished ==
    /\ pc = "rp_finished"
    /\ pc' = "rp_home"
    /\ UNCHANGED <<loaderVars, fin_k, steps>>
    /\ ReplayFrame

\* one iteration of the finally block's homing loop; env.close() after the
\* last one
ReplayHomeStep ==
    /\ pc = "rp_home"
    /\ fin_k' = fin_k + 1
    /\ pc' = IF fin_k + 1 = REPLAY_HOME_STEPS THEN "rp_done" ELSE "rp_home"
    /\ UNCHANGED <<loaderVars, steps>>
    /\ ReplayFrame

NextReplay ==
    \/ ReplayPeek
    \/ ReplayStart
    \/ ReplayTick
    \/ ReplayInterrupt
    \/ ReplayFinished
    \/ ReplayHomeStep

SpecReplay == InitReplay /\ [][NextReplay]_vars

-----------------------------------------------------------------------------
(* A caller holding an MKController after its release: any order of       *)
(* controller.apply_action, perform_home_sequence, controller.close and    *)
(* driver.disconnect calls.                                                 *)

\* driver.disconnect(): motors disabled, serial port closed
DriverDisconnect == drv_connected' = FALSE

InitRelease ==
    /\ BrokerInit(1)
    /\ ClampInit
    /\ AuxIdle
    /\ OperatorIdle
    /\ drv_connected = TRUE
    /\ bus_last = <<>>
    /\ bus_cmd = <<>>
    /\ bus_src = "none"
    /\ bus_srcs = {}
    /\ bus_n = 0
    /\ bus_clamped = {}
    /\ ctl_connected = TRUE
    /\ term = "cbreak"
    /\ keys_used = 0
    /\ prev_action = <<>>
    /\ env_chunk = <<>>
    /\ env_interp = FALSE
    /\ interp_j = 0
    /\ interp_n = 0
    /\ interp_sent = <<>>
    /\ play_i = 0
    /\ play_log = <<>>
    /\ pc = "running"
    /\ ctx = "run"
    /\ exc = "none"
    /\ fin_k = 0
    /\ steps = 0

\* what no call on the controller touches
ReleaseFrame ==
    UNCHANGED <<brokerVars, clampVars, auxVars, envVars, stdin, home_k, ctx,
                fin_k, steps>>

\* controller.apply_action(cmd); the caller catches what it raises
ReleaseApplyAction ==
    /\ pc = "running"
    /\ \E cmd \in CtlCmds, k \in Keys :
          /\ ControllerApplyAction(cmd, k, "frame")
          /\ pc' = IF ApplyOutcome(k) = "paused" THEN "paused" ELSE "running"
          /\ exc' = IF ApplyOutcome(k) = "quit" THEN "KeyboardInterrupt"
                    ELSE exc
    /\ ReleaseFrame

\* the pause loop of that call reads a key
ReleasePausedKey ==
    /\ pc = "paused"
    /\ \E k \in Keys \ {"none"} :
          /\ KeyAllowed(k)
          /\ keys_used' = KeysAfter(k)
          /\ key_log' = Append(key_log, <<"paused", k>>)
          /\ CASE PauseOutcome(k) = "quit" ->
                     pc' = "running" /\ exc' = "KeyboardInterrupt"
               [] PauseOutcome(k) = "reset" ->
                     pc' = "running" /\ exc' = "RobotResetException"
               [] PauseOutcome(k) = "stay" -> UNCHANGED <<pc, exc>>
    /\ UNCHANGED <<driverVars, ctl_connected, term, ctl_call>>
    /\ ReleaseFrame

\* controller.perform_home_sequence() called on its own
ReleaseHomeSequence ==
    /\ pc = "running"
    /\ PerformHomeSequence
    /\ ctl_call' = [kind |-> "home", cmd |-> ZeroPose, src |-> "home",
                    polls |-> 0, key |-> "none", sent |-> drv_connected]
    /\ UNCHANGED <<drv_connected, ctlVars, key_log, pc, exc>>
    /\ ReleaseFrame

\* controller.close()
ReleaseClose ==
    /\ pc = "running"
    /\ ControllerClose
    /\ BusUnchanged
    /\ UNCHANGED <<keys_used, key_log, ctl_call, pc, exc>>
    /\ ReleaseFrame

\* driver.disconnect() called on the driver itself
ReleaseDisconnect ==
    /\ pc = "running"
    /\ DriverDisconnect
    /\ BusUnchanged
    /\ UNCHANGED <<ctlVars, key_log, ctl_call, pc, exc>>
    /\ ReleaseFrame

NextRelease ==
    \/ ReleaseApplyAction
    \/ ReleasePausedKey
    \/ ReleaseHomeSequence
    \/ ReleaseClose
    \/ ReleaseDisconnect

SpecRelease == InitRelease /\ [][NextRelease]_vars

-----------------------------------------------------------------------------
(* Properties of the Broker *)

Raw == raw_last.val
Served == bout.val

\* the i-th (from 0) row of a 2-d array, written out element by element
Row(x, i) ==
    LET w == x.shape[2]
    IN NdArray(<<w>>, [j \in 1..w |-> x.flat[i * w + j]])

\* frame i of the raw action: row i of a chunk, the frame itself if there
\* is no chunk dimension
RawFrame(raw, i) ==
    IF Ndim(raw[K_actions]) = 1 THEN raw[K_actions] ELSE Row(raw[K_actions], i)

InferReturned == last_op.op = "infer" /\ bout.kind = "ok"

\* C1 (chunk cache reuse): in a run of infer calls without reset in which
\* every call returned and every chunk had the same length L, call number k
\* (from 0) invoked the policy iff k is a multiple of min(L, H).
C1_ReuseWindow ==
    (last_op.op = "infer" /\ ~run_err /\ run_len > 0)
        => ((pcalls = 1) <=>
            ((run_calls - 1) % Min(run_len, action_horizon) = 0))

C1_Witness ==
    /\ last_op.op = "infer" /\ ~run_err
    /\ run_len = 3 /\ action_horizon = 2
    /\ run_calls = 5 /\ pcalls = 1

\* C2 (slicing correctness): for a chunk of length L <= H with actions[L,.],
\* logits[L,3] and a scalar meta, the i-th call on the chunk returns
\* actions[i] with logits[i], and meta unchanged.
C2_SlicingPaired ==
    (/\ InferReturned
     /\ {K_logits, K_meta} \subseteq DOMAIN Raw
     /\ Ndim(Raw[K_actions]) = 2
     /\ RawLen(Raw) <= action_horizon)
        => /\ chunk_calls <= RawLen(Raw)
           /\ Served[K_actions] = Row(Raw[K_actions], chunk_calls - 1)
           /\ Served[K_logits] = Row(Raw[K_logits], chunk_calls - 1)
           /\ Served[K_meta] = Raw[K_meta]

C2_Witness ==
    /\ InferReturned
    /\ {K_logits, K_meta} \subseteq DOMAIN Raw
    /\ Ndim(Raw[K_actions]) = 2
    /\ RawLen(Raw) = 3 /\ action_horizon = 3
    /\ chunk_calls = 3

\* a field that is not the action field and whose leading dimension is not
\* the chunk length (or that has no dimension)
PassThroughField(raw, k) ==
    /\ k # K_actions
    /\ Ndim(raw[k]) = 0 \/ raw[k].shape[1] # RawLen(raw)

\* C3 (pass-through of non-sequence fields): every such field, whatever its
\* name, is returned by every infer call identical to its raw value.
C3_PassThrough ==
    InferReturned
        => \A k \in DOMAIN Raw : PassThroughField(Raw, k) => Served[k] = Raw[k]

\* C4 (length-1 synthesis): a raw action without chunk dimension is served
\* as it is by the call that inferred it, the cache is empty afterwards, and
\* no later call is served from it (every call on it invoked the policy).
C4_Length1Synthesis ==
    (InferReturned /\ Ndim(Raw[K_actions]) = 1)
        => /\ pcalls = 1
           /\ chunk_calls = 1
           /\ Served[K_actions] = Raw[K_actions]
           /\ IsNone(last_results)

C4_Witness ==
    /\ InferReturned /\ Ndim(Raw[K_actions]) = 1
    /\ action_horizon = 3
    /\ last_op.prev_op = "infer" /\ last_op.prev_out = "ok"
    /\ run_calls >= 2

\* C5 (cursor discipline): the i-th call served from a chunk returns frame i
\* of that chunk, i = 0, 1, 2, ... below both the chunk length and H, and
\* leaves the cursor at i + 1.
C5_CursorDiscipline ==
    InferReturned
        => /\ chunk_calls <= RawLen(Raw)
           /\ chunk_calls <= action_horizon
           /\ Served[K_actions] = RawFrame(Raw, chunk_calls - 1)
           /\ cur_step = chunk_calls
           /\ (pcalls = 1 => cur_step = 1)

C5_Witness ==
    /\ InferReturned
    /\ RawLen(Raw) = 3 /\ action_horizon = 3
    /\ chunk_calls = 3 /\ cur_step = 3

\* C6 (Broker reset): after reset() no chunk is cached and the cursor is 0,
\* whatever they were; the next infer invokes the policy and, when it
\* returns, returns frame 0 of the new chunk.
C6_Reset ==
    /\ last_op.op = "reset" => IsNone(last_results) /\ cur_step = 0
    /\ (last_op.op = "infer" /\ last_op.prev_op = "reset")
          => /\ pcalls = 1
             /\ bout.kind = "ok" => Served[K_actions] = RawFrame(Raw, 0)

C6_Witness ==
    /\ InferReturned
    /\ last_op.prev_op = "reset"
    /\ last_op.prev_from = 2 /\ last_op.prev_cache

\* C7 (inference failure): when the policy raises, the Broker's infer
\* raises after one policy call, no chunk is cached, and the next infer
\* call invokes the policy again.
C7_InferenceFailure ==
    /\ bout.kind = "policy_error" => pcalls = 1 /\ IsNone(last_results)
    /\ (last_op.op = "infer" /\ last_op.prev_out = "policy_error")
          => pcalls = 1

C7_Witness ==
    /\ last_op.op = "infer" /\ last_op.prev_out = "policy_error"
    /\ bout.kind = "ok"

-----------------------------------------------------------------------------
(* Properties of the safety clamp *)

InLimit(v, j) == LimitOf(j)[1] <= v /\ v <= LimitOf(j)[2]

\* C8 (clamp range): check_joints_limit(x) has every arm entry inside its
\* JOINT_LIMITS interval and the gripper inside [0,1]; an entry inside its
\* interval is unchanged, one outside becomes the nearest bound.
C8_ClampRange ==
    Len(clamp_y) >= 1
        => \A j \in 1..DOF :
              /\ InLimit(clamp_y[1][j], j)
              /\ InLimit(clamp_x[j], j) => clamp_y[1][j] = clamp_x[j]
              /\ clamp_x[j] < LimitOf(j)[1] => clamp_y[1][j] = LimitOf(j)[1]
              /\ clamp_x[j] > LimitOf(j)[2] => clamp_y[1][j] = LimitOf(j)[2]

\* joint 4 commanded at 100.0 rad (and the gripper above 1) clamps to 1.2
C8_Witness ==
    /\ Len(clamp_y) >= 1
    /\ clamp_x[4] = 100 * RAD /\ clamp_y[1][4] = (12 * RAD) \div 10
    /\ clamp_x[7] > RAD /\ clamp_y[1][7] = RAD

\* C9 (clamp idempotence): check_joints_limit(check_joints_limit(x)) equals
\* check_joints_limit(x).
C9_ClampIdempotent ==
    Len(clamp_y) >= 2 => clamp_y[2] = clamp_y[1]

C9_Witness ==
    /\ Len(clamp_y) >= 2
    /\ clamp_y[1] # clamp_x
    /\ clamp_x[2] < 0 /\ clamp_x[5] > RAD

\* C11 (translator round trip): a physical reading turned into the policy
\* frame by get_observation and back into the physical frame by send_action
\* is the reading again.
C11_RoundTrip ==
    target_physical # <<>> => target_physical = clamp_x

\* a reading whose policy-frame state differs from it has made the round trip
C11_Witness ==
    /\ target_physical # <<>>
    /\ sim_state # clamp_x
    /\ \E j \in 1..DOF : sim_state[j] = -clamp_x[j] /\ clamp_x[j] # 0
    /\ \E j \in 1..DOF : sim_state[j] = clamp_x[j] /\ clamp_x[j] # 0

-----------------------------------------------------------------------------
(* Properties of the composed system *)

BusPaths == {"frame", "interp", "home", "shutdown"}

\* C10 (clamp on every path): whatever path issued it, every target put on
\* the bus has each arm joint inside JOINT_LIMITS and the gripper in [0,1].
C10_ClampOnEveryPath ==
    bus_last # <<>> => \A j \in 1..DOF : InLimit(bus_last[j], j)

\* all four paths have commanded the bus, the last one being the shutdown
\* homing, and both a policy frame and an interpolated pose had to be clamped
C10_Witness ==
    /\ BusPaths \subseteq bus_srcs
    /\ {"frame", "interp"} \subseteq bus_clamped
    /\ bus_src = "shutdown" /\ bus_last = ZeroPose

-----------------------------------------------------------------------------
(* Properties of the interpolation *)

\* _run_interpolation has returned normally
InterpReturned == pc = "play" /\ env_interp

InterpStart == prev_action
InterpTarget == env_chunk[1]

\* command c lies at fraction j/(N+1) of the way from start to target in
\* every arm joint
AtFraction(c, j, n) ==
    \A k \in 1..ARM :
        (c[k] - InterpStart[k]) * (n + 1) = (InterpTarget[k] - InterpStart[k]) * j

ArmEqual(a, b) == \A k \in 1..ARM : a[k] = b[k]

\* C12 as stated (interpolation sequence), including "it never sends start or
\* target themselves": N commands for N >= 1, none for N <= 0, the j-th at
\* fraction j/(N+1), and no command equal to the start or the target pose.
C12_InterpSequenceAsStated ==
    /\ InterpReturned =>
          /\ Len(interp_sent) = IF interp_n >= 1 THEN interp_n ELSE 0
          /\ \A j \in 1..Len(interp_sent) : AtFraction(interp_sent[j], j, interp_n)
    /\ \A j \in 1..Len(interp_sent) :
          interp_sent[j] # InterpStart /\ interp_sent[j] # InterpTarget

\* C12 (interpolation sequence), amended: N commands for N >= 1, none for
\* N <= 0, the j-th at fraction j/(N+1) in every arm joint; in every arm joint
\* where start and target differ the commanded values move strictly towards
\* the target and lie strictly between the two, so neither pose is sent
\* unless their arm joints coincide.
C12_InterpSequence ==
    /\ InterpReturned =>
          /\ Len(interp_sent) = IF interp_n >= 1 THEN interp_n ELSE 0
          /\ \A j \in 1..Len(interp_sent) : AtFraction(interp_sent[j], j, interp_n)
    /\ \A j \in 1..Len(interp_sent) : \A k \in 1..ARM :
          LET c == interp_sent[j][k]
              before == IF j = 1 THEN InterpStart[k] ELSE interp_sent[j - 1][k]
          IN /\ InterpStart[k] < InterpTarget[k]
                  => before < c /\ c < InterpTarget[k]
             /\ InterpStart[k] > InterpTarget[k]
                  => before > c /\ c > InterpTarget[k]
             /\ InterpStart[k] = InterpTarget[k] => c = InterpStart[k]
    /\ ~ArmEqual(InterpStart, InterpTarget)
          => \A j \in 1..Len(interp_sent) :
                interp_sent[j] # InterpStart /\ interp_sent[j] # InterpTarget

\* joint 0 from 0 to 0.6 rad in 15 sub-steps: 0.6/16 first, 0.6*15/16 last
C12_Witness ==
    /\ InterpReturned
    /\ interp_n = INTERP_STEPS /\ Len(interp_sent) = INTERP_STEPS
    /\ InterpStart[1] = 0 /\ InterpTarget[1] = (6 * RAD) \div 10
    /\ interp_sent[1][1] * 16 = (6 * RAD) \div 10
    /\ interp_sent[INTERP_STEPS][1] * 16 = ((6 * RAD) \div 10) * 15

\* C13 (gripper hold during smoothing): every interpolation sub-step commands
\* the gripper value of the start pose (the previous commanded action); the
\* new chunk's gripper value is commanded by the first frame played after
\* the interpolation, not before.
C13_GripperHold ==
    /\ play_i = 0 =>
          \A j \in 1..Len(interp_sent) : interp_sent[j][DOF] = prev_action[DOF]
    /\ bus_src = "interp" => bus_cmd[DOF] = prev_action[DOF]
    /\ (env_interp /\ play_i = 1 /\ bus_src = "frame") =>
          /\ Len(interp_sent) = interp_n
          /\ bus_cmd[DOF] = env_chunk[1][DOF]
          /\ \A j \in 1..Len(interp_sent) :
                interp_sent[j][DOF] = interp_sent[1][DOF]

\* a full interpolation towards a frame with another gripper value, and that
\* frame played
C13_Witness ==
    /\ env_interp /\ play_i = 1 /\ bus_src = "frame"
    /\ Len(interp_sent) = INTERP_STEPS
    /\ interp_sent[INTERP_STEPS][DOF] # env_chunk[1][DOF]
    /\ bus_cmd = env_chunk[1]

\* C14 (smoothing only at chunk boundaries): env.apply_action interpolates
\* only for an action the Broker served by invoking the policy (the first
\* frame of a newly inferred chunk) and only when a previous commanded action
\* exists; a frame served from the cache is played with one command and no
\* interpolation sub-step.
C14_SmoothingOnlyAtBoundaries ==
    pc \in {"runinterp", "interp", "play"} =>
        /\ env_interp => (pcalls = 1 /\ steps >= 1)
        /\ pcalls = 0 => interp_sent = <<>>

-----------------------------------------------------------------------------
(* Properties of the operator controller *)

\* this step reads key k from stdin
ReadKey(k) == stdin # <<>> /\ Head(stdin) = k /\ stdin' = Tail(stdin)

ReadsQuit == ReadKey("q") \/ ReadKey("Q")

ReadsNothing == \A k \in TypedKeys : ~ReadKey(k)

C15_Step ==
    /\ pc = "running" =>
          /\ ReadKey(" ") => (pc' = "homing" /\ home_k' = 0)
          /\ ReadsQuit => (pc' = "raised" /\ exc' = "KeyboardInterrupt")
          /\ ReadKey("x") =>
                (pc' = "running" /\ ctl_call'.sent /\ bus_cmd' = ctl_call'.cmd)
          /\ ReadsNothing => pc' = "running"
    /\ pc = "homing" =>
          /\ ReadsNothing
          /\ pc' = IF home_k' = HOME_STEPS THEN "paused" ELSE "homing"
    /\ pc = "paused" =>
          /\ ReadKey(" ") => (pc' = "raised" /\ exc' = "RobotResetException")
          /\ ReadsQuit => (pc' = "raised" /\ exc' = "KeyboardInterrupt")
          /\ ReadKey("x") => pc' = "paused"
          /\ ReadsNothing => pc' = "paused"
    /\ pc = "raised" => pc' = "raised"

\* C15 (operator state machine): the controller starts RUNNING; space read in
\* RUNNING starts the home sequence, whose end leads to PAUSED; space read in
\* PAUSED raises RobotResetException, q read in RUNNING or PAUSED raises
\* KeyboardInterrupt; any other key read in RUNNING leaves it RUNNING with
\* the action sent, any other key read in PAUSED leaves it PAUSED, and
\* nothing else changes the state.
C15_Transitions == pc = "running" /\ [][C15_Step]_vars

\* pause, another key dropped while paused, then the reset
C15_Witness ==
    /\ pc = "raised" /\ exc = "RobotResetException"
    /\ key_log = << <<"frame", " ">>, <<"paused", "x">>, <<"paused", " ">> >>
    /\ bus_src = "home" /\ bus_n = HOME_STEPS

\* only zero poses have gone to the bus since the pause key was read, home_k
\* of them
HomeSoFar ==
    /\ ~ctl_call.sent
    /\ home_k >= 1 =>
          /\ bus_src = "home" /\ bus_cmd = ZeroPose /\ bus_last = ZeroPose
          /\ bus_n = home_k

\* C16 (bounded Home maneuver): after the pause key the controller sends the
\* zero pose HOME_STEPS (40) times and nothing else, reads no key meanwhile,
\* always gets to the end of those commands, and is PAUSED after exactly
\* that many.
C16_BoundedHome ==
    /\ [](pc = "homing" => (home_k < HOME_STEPS /\ HomeSoFar))
    /\ [](pc = "paused" => (home_k = HOME_STEPS /\ HomeSoFar))
    /\ [][pc = "homing" => (stdin' = stdin \/ Len(stdin') > Len(stdin))]_vars
    /\ (pc = "homing") ~> (pc = "paused")

\* the maneuver has run to its end although keys were typed meanwhile
C16_Witness ==
    /\ pc = "paused" /\ home_k = HOME_STEPS
    /\ bus_n = HOME_STEPS /\ bus_last = ZeroPose
    /\ key_log = << <<"frame", " ">> >>
    /\ Len(stdin) = MaxTyped - 1

\* C17 (non-blocking input polling): every command the playback loop or the
\* interpolator passes to controller.apply_action is preceded by exactly one
\* poll of stdin, and when that poll finds no key the same command goes to
\* the driver within the same call.
C17_PollPerCommand ==
    (ctl_call.kind = "call" /\ ctl_call.src \in {"frame", "interp"}) =>
        /\ ctl_call.polls = 1
        /\ ctl_call.key = "none" =>
              /\ ctl_call.sent
              /\ bus_cmd = ctl_call.cmd /\ bus_src = ctl_call.src /\ bus_n = 1
              /\ bus_last = CheckJointsLimit(TimesDir(ctl_call.cmd))

\* an interpolation sub-step and a played frame, each polled with no key
\* waiting and sent
C17_Witness ==
    /\ ctl_call.kind = "call" /\ ctl_call.src = "frame"
    /\ ctl_call.polls = 1 /\ ctl_call.key = "none" /\ ctl_call.sent
    /\ Len(interp_sent) = INTERP_STEPS
    /\ bus_cmd = ctl_call.cmd /\ play_i = 1

-----------------------------------------------------------------------------
(* Properties of the reset and quit paths through main *)

\* where the call was made whose poll read the pause key that led to the
\* pause-loop entry i of key_log
RECURSIVE PausedFrom(_)
PausedFrom(i) ==
    IF i <= 1 THEN "none"
    ELSE IF key_log[i - 1][1] = "paused" THEN PausedFrom(i - 1)
    ELSE key_log[i - 1][1]

\* entry i of key_log is the space that raised RobotResetException out of a
\* pause begun at src
ResetRaisedAt(i, src) ==
    /\ i \in 1..Len(key_log)
    /\ key_log[i] = <<"paused", " ">>
    /\ PausedFrom(i) = src

RunPcs == {"start", "step", "apply", "runinterp", "interp", "play"}

\* C18 (reset unwinds immediately): once RobotResetException has been raised
\* during an interpolation or a chunk playback, control is out of
\* env.apply_action and of the run loop; the command whose poll read the
\* pause key, the remaining interpolation sub-steps and the remaining frames
\* of the chunk are never sent: the bus gets zero poses only.
C18_ResetUnwinds ==
    \A i \in 1..Len(key_log) :
        /\ ResetRaisedAt(i, "interp") =>
              /\ pc \notin RunPcs
              /\ Len(interp_sent) < interp_n /\ play_i = 0
              /\ bus_src \in {"home", "shutdown"} /\ bus_cmd = ZeroPose
        /\ ResetRaisedAt(i, "frame") =>
              /\ pc \notin RunPcs
              /\ play_i < Len(env_chunk)
              /\ bus_src \in {"home", "shutdown"} /\ bus_cmd = ZeroPose

\* a reset raised after the first frame of a chunk of MaxLen frames, unwound
\* into the shutdown block
C18_Witness ==
    /\ pc = "final" /\ bus_src = "home"
    /\ ResetRaisedAt(2, "frame")
    /\ play_i = 1 /\ Len(env_chunk) = MaxLen

\* this step raises RobotResetException out of a pause begun inside rt.run()
ResetRaisedInRun ==
    /\ pc = "paused" /\ ctx = "run"
    /\ Len(key_log') = Len(key_log) + 1
    /\ key_log'[Len(key_log')] = <<"paused", " ">>

\* C19 (reset starts a fresh episode): a reset event raised during a chunk
\* playback hands control back to the loop that begins a new episode, and
\* every episode begins with the Broker holding no cached chunk and cursor 0,
\* whatever the cursor was.
C19_ResetFreshEpisode ==
    /\ [][ResetRaisedInRun => pc' = "start"]_vars
    /\ [][(pc = "start" /\ pc' = "step")
            => (IsNone(last_results') /\ cur_step' = 0)]_vars

\* the operator has given a quit signal: q read by a poll or by the pause loop
QuitRead == \E i \in 1..Len(key_log) : IsQuitKey(key_log[i][2])

\* C20 (quit restores the terminal): whenever the process terminates after a
\* quit signal, read in RUNNING or in PAUSED, during the run or during the
\* shutdown, the terminal mode saved at construction has been restored.
C20_QuitRestoresTerminal ==
    (pc = "exit" /\ QuitRead) => term = "restored"

\* the sources of the zero-pose home commands
HomeSrcs == {"home", "kbint", "shutdown"}

\* C21 (home before release at shutdown): however main leaves the run loop
\* (runtime error, reset event, operator quit, Ctrl+C), the zero-pose
\* commands of the shutdown homing loop reach the hardware adapter while it
\* is still connected: when the loop has run through, the last command on
\* the bus is its zero pose.
C21_HomeBeforeRelease ==
    (pc \in {"closing", "exit"} /\ fin_k = SHUTDOWN_STEPS) =>
        (bus_src = "shutdown" /\ bus_cmd = ZeroPose /\ bus_last = ZeroPose)


\* C22 (hardware failure is skipped, not fatal): after the bus write of one
\* tick's action has failed, the control loop is still running: main has not
\* left rt.run() and the following ticks are still to be played.
C22_FailureSkipped ==
    ctl_call.kind = "failed" => pc \in RunPcs

\* C23 (single-owner bus access): at no time are two threads inside a
\* motor-bus access: the camera thread's motor read and the main thread's
\* motor write never overlap, and while the main thread is in the bus
\* accesses of connect/configure or disconnect the camera thread is in none.
C23_SingleOwnerBus ==
    /\ Cardinality(bus_users) <= 1
    /\ ~(thr_pc.main = "send_bus" /\ thr_pc.cam = "obs_bus")
    /\ thr_pc.main \in {"configure", "disconnect"} =>
          thr_pc.cam \in {"unstarted", "done"}

\* the main thread is writing a target while the camera thread waits for the
\* lock to read the motors
C23_Witness ==
    /\ thr_pc.main = "send_bus" /\ thr_pc.cam = "obs_wait"
    /\ lock_owner = "main" /\ bus_users = {"main"}
    /\ latest_obs # <<>>

\* C29 (camera task is passive): a step of the camera thread never issues a
\* motor command and never changes the commanded target, and the main
\* thread's send_action never has to wait for the camera thread: it never
\* stands at serial_lock while the camera thread holds it.
C29_CameraPassive ==
    [][/\ thr_last' = "cam" =>
             UNCHANGED <<target_pos, bus_last, bus_cmd, bus_src, bus_srcs, bus_n>>
       /\ ~(thr_pc'.main = "send_wait" /\ lock_owner' = "cam")]_vars

\* C24 (overrun non-blocking), as stated: every iteration of the playback
\* loop, of the interpolation loop and of the replay loop sleeps
\* max(0, dt - elapsed).
C24_SleepRemainderAsStated ==
    pace_loop # "none" => pace_slept = Max(0, PACE_DT - pace_elapsed)

\* C24 (overrun non-blocking), amended: every iteration of the interpolation
\* loop, of the replay loop and of the playback loop of a chunk of more than
\* one frame sleeps max(0, dt - elapsed): nothing when the work took dt or
\* longer, exactly the remainder when it took less.  The playback of a
\* single-frame chunk does not sleep.
C24_SleepRemainder ==
    /\ (pace_loop \in {"interp", "replay"} \/ (pace_loop = "play" /\ pace_len > 1))
          => pace_slept = Max(0, PACE_DT - pace_elapsed)
    /\ (pace_loop = "play" /\ pace_len = 1) => pace_slept = 0

\* an overrun iteration of a multi-frame playback right after one that slept
\* the remainder
C24_Witness ==
    /\ pace_loop = "play" /\ pace_len > 1
    /\ pace_elapsed > PACE_DT /\ pace_slept = 0
    /\ pace_clock = PACE_DT + pace_elapsed

\* C25 (both calibration variants): the physical target send_action computes
\* is the sign-multiplied policy vector plus the zero offset captured at
\* connect time when relative zeroing is asked for, and the sign-multiplied
\* vector alone when it is not.
C25_CalibrationVariants ==
    target_physical # <<>> =>
        target_physical =
            IF relative_zeroing
            THEN [j \in 1..DOF |-> TimesDir(sim_state)[j] + zero_offset[j]]
            ELSE TimesDir(sim_state)

\* whether an action carries a true is_new_chunk flag, an absent one counting
\* as true
FlagSet(action) ==
    K_is_new_chunk \notin DOMAIN action
    \/ action[K_is_new_chunk] \in {PyObj(1), NdArray(<<>>, <<1>>)}

\* an apply_action call is in its interpolation phase
Interpolating == pc \in {"runinterp", "interp"}

\* an apply_action call is about to play its first frame with no
\* interpolation run before it
PlayingUninterpolated == pc = "play" /\ play_i = 0 /\ interp_j = 0

\* C26 (interpolation gate): apply_action runs its interpolation phase if and
\* only if the action's is_new_chunk flag is true (absent counts as true)
\* and prev_action is not None; so the first action after construction or
\* after env.reset() and an action flagged false are never interpolated.
C26_InterpolationGate ==
    /\ Interpolating => (FlagSet(bout.val) /\ prev_action # <<>>)
    /\ PlayingUninterpolated => ~(FlagSet(bout.val) /\ prev_action # <<>>)
    /\ (pc = "play" /\ play_i = 0) => (interp_j = 0 \/ interp_j = INTERP_STEPS + 1)

\* an action flagged false goes straight to playback although frames were
\* played before it
C26_Witness ==
    /\ PlayingUninterpolated
    /\ prev_action # <<>>
    /\ K_is_new_chunk \in DOMAIN bout.val
    /\ steps = 2

\* C27 (chunk playback order): the playback loop of apply_action passes the
\* frames of the action's chunk to the controller in index order, each
\* exactly once: before iteration i it has passed frames 0..i-1; and when
\* apply_action returns normally all L frames have been passed and
\* prev_action is frame L-1.
C27_PlaybackOrder ==
    [][/\ pc' = "play" => play_log' = SubSeq(env_chunk', 1, play_i')
       /\ (pc = "play" /\ pc' = "step") =>
             /\ play_log' = env_chunk'
             /\ prev_action' = env_chunk'[Len(env_chunk')]]_vars

\* a chunk of MaxLen frames played to its end after an interpolation
C27_Witness ==
    /\ pc = "step" /\ Len(env_chunk) = MaxLen
    /\ play_log = env_chunk /\ prev_action = env_chunk[MaxLen]
    /\ Len(interp_sent) = INTERP_STEPS

C30_ForcedHoming ==
    /\ ~(pc = "paused" /\ ctx = "kbint")
    /\ (ctl_call.kind = "call" /\ ctl_call.src = "kbint") =>
          /\ pc = "final" /\ exc = "none"
          /\ ctl_call.sent /\ bus_src = "kbint" /\ bus_cmd = ZeroPose

\* entry j of frame i (from 1) of the first batch element of an action array
\* of any accepted shape, in physical units
PhysicalEntry(a, i, j) ==
    a.flat[(i - 1) * DOF + j] * JOINT_NORM_SCALE[j] * (RAD \div 100)

\* the number of frames the claim gives an action array
FramesOf(a) ==
    IF Ndim(a) = 1 THEN 1 ELSE IF Ndim(a) = 3 THEN a.shape[2] ELSE a.shape[1]

\* an env.apply_action call has taken its action apart
ChunkTaken == bout.kind = "ok" /\ pc # "apply" /\ env_chunk # <<>>

\* C31 (defensive shape normalization): a 1-dimensional action array is
\* played as a chunk of one frame and a 3-dimensional one as the frames of
\* its first batch element, and every command passed to the controller is a
\* single 7-vector frame.
C31_ShapeNormalization ==
    /\ ChunkTaken =>
          LET a == bout.val[K_actions]
          IN /\ Len(env_chunk) = FramesOf(a)
             /\ \A i \in 1..Len(env_chunk) :
                   env_chunk[i] = [j \in 1..DOF |-> PhysicalEntry(a, i, j)]
    /\ ctl_call.kind = "call" =>
          (DOMAIN ctl_call.cmd = 1..DOF /\ \A j \in 1..DOF : ctl_call.cmd[j] \in Int)
    /\ \A i \in 1..Len(play_log) : DOMAIN play_log[i] = 1..DOF

\* the two frames of the first element of a batch of two have been played
C31_Witness ==
    /\ pc = "step" /\ ChunkTaken
    /\ Ndim(bout.val[K_actions]) = 3 /\ bout.val[K_actions].shape[1] = 2
    /\ Len(play_log) = 2 /\ play_log = env_chunk
    /\ bus_cmd = [j \in 1..DOF |-> PhysicalEntry(bout.val[K_actions], 2, j)]

\* C32 (episode loader cursor): since the loader was built or last reset,
\* call k of get_action returned frame k-1 of the episode while there was
\* one and None afterwards, and the cursor stands at the number of frames
\* returned: the None calls did not move it.
C32_LoaderCursor ==
    /\ \A k \in 1..Len(ld_log) :
          ld_log[k] = IF k <= Len(ld_frames)
                      THEN [kind |-> "ok", val |-> NdArray(<<DOF>>, ld_frames[k])]
                      ELSE None
    /\ ld_idx = Min(Len(ld_log), Len(ld_frames))
    /\ ld_log # <<>> => ld_out = ld_log[Len(ld_log)]

\* after a reset, a two-frame episode was read through and two more calls
\* returned None
C32_Witness ==
    /\ Len(ld_frames) = 2 /\ Len(ld_log) = 4 /\ ld_calls > Len(ld_log)
    /\ ld_out = None /\ ld_idx = 2
    /\ ld_log[1].val.flat = ld_frames[1]

\* the loaded episode in the units the replay loop sends
EpisodeReal ==
    [i \in 1..Len(ld_frames) |-> Denormalize(NdArray(<<DOF>>, ld_frames[i])).flat]

\* C37 (replay covers the whole episode): when the replay loop ends with
\* "Episode finished" it has sent every frame of the loaded episode once and
\* in order, starting with frame 0: n frames for an episode of n.
C37_ReplayCoversEpisode ==
    pc = "rp_finished" => (rp_sent = EpisodeReal /\ steps = Len(ld_frames))

-----------------------------------------------------------------------------
(* C33: between Broker calls either no chunk is cached, or a chunk of      *)
(* length L is cached and the cursor c satisfies 1 <= c < min(H, L), so    *)
(* that min(c, L - 1) = c is an index inside the chunk.                    *)
C33_CacheInvariant ==
    \/ IsNone(last_results)
    \/ LET L == ChunkSize(last_results.val)
       IN /\ 1 <= cur_step
          /\ cur_step < Min(action_horizon, L)
          /\ Min(cur_step, L - 1) = cur_step

-----------------------------------------------------------------------------
\* the last command the hardware received is the zero pose of a completed
\* home sequence, and the command of the interrupted call never reached it
HomePoseDelivered ==
    /\ bus_src = "home" /\ bus_n = HOME_STEPS
    /\ bus_cmd = ZeroPose /\ bus_last = ZeroPose
    /\ ~ctl_call.sent /\ ctl_call.key = " " /\ ctl_call.cmd # bus_cmd

C34_Step ==
    pc = "paused" =>
        /\ BusHistoryUnchanged
        /\ ctl_call' = ctl_call
        /\ HomePoseDelivered'

\* C34 (no actuation while paused): from the end of the home sequence until
\* the pause loop raises, no step writes a command to the bus, and the
\* command whose call read the pause key is not sent; when the reset or the
\* quit is raised from PAUSED the last command the hardware received is the
\* all-zero home pose.
C34_NoActuationWhilePaused == [][C34_Step]_vars

\* a command was sent, the next call read the pause key, and the second
\* space raised the reset out of the pause loop
C34_Witness ==
    /\ pc = "raised" /\ exc = "RobotResetException"
    /\ key_log = << <<"frame", " ">>, <<"paused", " ">> >>
    /\ "frame" \in bus_srcs
    /\ HomePoseDelivered

-----------------------------------------------------------------------------
\* a call made on the closed controller returned at once: no poll of stdin,
\* nothing raised, the terminal left as close() restored it
ReturnsWithoutEffect ==
    /\ UNCHANGED <<ctl_connected, drv_connected, term, keys_used, key_log, pc, exc>>
    /\ ctl_call' # ctl_call => (~ctl_call'.sent /\ ctl_call'.polls = 0)

C35_Step ==
    /\ ~drv_connected => (BusHistoryUnchanged /\ ~drv_connected')
    /\ ~ctl_connected => ReturnsWithoutEffect

\* C35 (no bus write after release): once controller.close() or the driver's
\* disconnect() has run, no later apply_action, home sequence or homing
\* command is written to the bus, and a call on the closed controller
\* returns without polling, raising or changing anything.
C35_NoWriteAfterRelease == [][C35_Step]_vars

\* a command reached the bus, the driver was disconnected, and a home
\* sequence run afterwards left the bus as that command had left it
C35_Witness ==
    /\ ~drv_connected
    /\ ctl_call.kind = "home" /\ ~ctl_call.sent
    /\ bus_src = "frame" /\ bus_n = 1 /\ bus_cmd \in CtlCmds


-----------------------------------------------------------------------------
\* env.close() has run: terminal restored, controller and driver released
EnvClosed == term = "restored" /\ ~ctl_connected /\ ~drv_connected

\* C36 (shutdown terminates): once main is in its finally block the shutdown
\* runs through whatever the operator types or does not type: it never
\* stops to wait for a key, it issues at most SHUTDOWN_STEPS (50) zero-pose
\* commands, and main is left only after env.close() has restored the
\* terminal and disconnected the driver.
C36_ShutdownTerminates ==
    /\ ~(pc = "paused" /\ ctx = "final")
    /\ fin_k <= SHUTDOWN_STEPS
    /\ pc = "exit" => EnvClosed
====
